---- MODULE Spec2Model ----
(***************************************************************************)
(* State-machine model of tools/recompute_stats.py: the batch tool that    *)
(* walks the projects of an object store, decides per project whether the  *)
(* weekday/weekend percentile profiles must be rebuilt, rebuilds them from *)
(* every day folder and persists weekday.csv, weekend.csv and state.json.  *)
(* The object store is shared with other writers, which are modelled by    *)
(* the Env* actions; a failing store call is modelled by IOError.          *)
(***************************************************************************)
EXTENDS Integers, Sequences, FiniteSets, TLC

\* ------------------------------------------------------------------ bounds
MaxDay == 3          \* day folders 1..MaxDay, in date order
MaxKey == 2          \* csv keys 1..MaxKey inside one day folder, in key order
MaxRuns == 3         \* invocations of main
MaxEnv == 2          \* changes made to the store by other writers
MaxFaults == 1       \* store calls that fail

\* ------------------------------------------------------- program constants
TARGET_COLUMN == "P_total"
AGG_MINUTES_FALLBACK == 5
\* the percentile list, in 1/1000
PERCENTILES == <<5, 25, 50, 250, 750, 950, 975, 995>>

\* ------------------------------------------------------------- the universe
ProjOrder == <<"A(1)", "B(2)">>
Projects == {ProjOrder[i] : i \in 1..Len(ProjOrder)}
Days == 1..MaxDay
CsvKeys == 1..MaxKey
RegionIds == {1, 2}
\* two day folders per calendar year
YearOf(d) == (d + 1) \div 2
Years == {YearOf(d) : d \in Days}

SetMax(S) == CHOOSE x \in S : \A y \in S : y <= x

\* a day folder without objects
NoFiles == [k \in CsvKeys |-> 0]
\* process_settings.json
NoSettings == [present |-> FALSE, value |-> 0]
SettingsChoices == {NoSettings, [present |-> TRUE, value |-> 0], [present |-> TRUE, value |-> 15]}
\* a calendar object: not there, there and unparseable, or a set of dates
NoCal == [kind |-> "absent", dates |-> {}]
BadCal == [kind |-> "bad", dates |-> {}]
OkCal(S) == [kind |-> "ok", dates |-> S]
CalChoices(y) == {NoCal, BadCal} \cup {OkCal({d}) : d \in {e \in Days : YearOf(e) = y}}
\* weekday.csv / weekend.csv
NoOut == [kind |-> "absent", agg |-> 0, from |-> {}]
EmptyOut == [kind |-> "empty", agg |-> 0, from |-> {}]
\* state.json
NullRec == [computed_at |-> 0, last_day |-> 0, last_day_file_count |-> 0,
            last_day_max_key |-> 0, last_day_max_last_modified |-> 0,
            agg_minutes |-> 0, target_column |-> "", percentiles |-> <<>>,
            days_total |-> 0, days_weekday |-> 0, days_weekend |-> 0]
NoState == [kind |-> "absent", rec |-> NullRec]
GarbageState == [kind |-> "garbage", rec |-> NullRec]
NonObjectState == [kind |-> "nonobject", rec |-> NullRec]
NoSig == [day |-> 0, file_count |-> 0, max_key |-> 0, max_last_modified |-> 0]

VARIABLES
    \* the object store
    files,          \* files[p][d][k]: LastModified of <p>/All/<d>/<k>.csv, 0 = no such object
    junk,           \* junk[p]: an object under <p>/All/ outside every day folder
    settings,       \* settings[p]: <p>/config/process_settings.json
    baseCal,        \* baseCal[y]: Calendar/calendar_<y>.json
    regionCal,      \* regionCal[p][y][r]: <p>/Stat/calendar_<y>_region_<r>.json
    weekdayCsv,     \* weekdayCsv[p]: <p>/Stat/weekday.csv
    weekendCsv,     \* weekendCsv[p]: <p>/Stat/weekend.csv
    stateJson,      \* stateJson[p]: <p>/Stat/state.json
    \* main
    mainpc, projects, idx, base_calendar_cache, region_calendar_cache, status, retcode,
    \* _recompute_project of projects[idx]
    pc, days, sig, agg_minutes, di, weekday_series, weekend_series, exc,
    \* bookkeeping of the run: what was fetched and written, and when the store changed
    run, envCount, faults, lastEnvRun, prevStatus, wrote, baseFetch, regionFetch,
    \* one call of _read_day_dataframe followed by _build_day_series
    objs,           \* objs[k]: the object of the day folder under key k
    rd_pc,          \* where the call stands
    ki,             \* the position of the loop in keys
    parts,          \* the tables appended so far
    out,            \* the table returned by _read_day_dataframe
    day_ok,         \* the folder name is a date
    bd_agg,         \* agg_minutes of _build_day_series
    s_m,            \* the series returned by _build_day_series
    \* one call of _compute_quantiles
    series_list,    \* the day profiles of the group
    q_agg,          \* agg_minutes
    q_pc,           \* where the call stands
    q_out,          \* the table returned
    \* one call of _parse_time_first_col
    col,            \* the first column of the raw table
    t_pc,           \* where the call stands
    t_route,        \* the parse whose result is returned
    ts,             \* the series returned
    \* one call of normalize
    raw_df,         \* the table passed in
    n_pc,           \* where the call stands
    n_out,          \* the table returned
    \* one call of _to_num, or of coerce_numeric on one column
    column,         \* the column passed in
    c_pc,           \* where the call stands
    c_out,          \* the column returned
    \* one call of aggregate_by, or of resample of core/downsample.py
    a_df,           \* the table passed in
    a_rule,         \* rule
    a_agg,          \* agg of resample
    a_pc,           \* where the call stands
    a_out,          \* what the call returned or raised
    \* the session state of core/hour_loader.py and core/minute_loader.py
    loader,         \* the loader whose calls are followed
    loaded_hours,   \* [(date, hour)]
    hour_cache,     \* the keys of hour_cache
    current_hour,   \* (current_date, current_hour)
    loaded_minutes, \* [(date, hour, minute)]
    minute_cache,   \* the keys of minute_cache
    current_minute, \* (current_minute_date, current_minute_hour, current_minute_minute)
    l_call,         \* the last call: function, argument, result, and the list before it
    \* the daily view of one day
    hour_files,     \* hour_files[h]: what the file of hour h holds on the server
    cached_tables,  \* cached_tables[h]: what hour_cache holds for hour h of the day
    entry_df,       \* entry["df"]: the hours whose rows are in the table of the day
    hours_present,  \* entry["hours_present"]
    d_pc,           \* where the view stands
    d_call          \* the last refresh: the hours present before it, the hours it asked
                    \* for and the files at that time

storeVars == <<files, junk, settings, baseCal, regionCal, weekdayCsv, weekendCsv, stateJson>>
mainVars == <<mainpc, projects, idx, base_calendar_cache, region_calendar_cache, status, retcode>>
localVars == <<pc, days, sig, agg_minutes, di, weekday_series, weekend_series, exc>>
bookVars == <<run, envCount, faults, lastEnvRun, prevStatus, wrote, baseFetch, regionFetch>>
schedVars == <<storeVars, mainVars, localVars, bookVars>>
dayVars == <<objs, rd_pc, ki, parts, out, day_ok, bd_agg, s_m>>
\* what a call of the day-profile functions leaves alone
quantVars == <<series_list, q_agg, q_pc, q_out>>
timeVars == <<col, t_pc, t_route, ts>>
normVars == <<raw_df, n_pc, n_out>>
coerceVars == <<column, c_pc, c_out>>
\* the variables of the dashboard's functions
aggVars == <<a_df, a_rule, a_agg, a_pc, a_out>>
loaderVars == <<loader, loaded_hours, hour_cache, current_hour,
                loaded_minutes, minute_cache, current_minute, l_call>>
dailyVars == <<hour_files, cached_tables, entry_df, hours_present, d_pc, d_call>>
viewVars == <<coerceVars, aggVars, loaderVars, dailyVars>>
notDayVars == <<schedVars, quantVars, timeVars, normVars, viewVars>>
notQuantVars == <<schedVars, dayVars, timeVars, normVars, viewVars>>
notTimeVars == <<schedVars, dayVars, quantVars, normVars, viewVars>>
notNormVars == <<schedVars, dayVars, quantVars, timeVars, viewVars>>
\* the variables of the statistics functions and of the time normalizer
pureVars == <<dayVars, quantVars, timeVars, normVars>>
notCoerceVars == <<schedVars, pureVars, aggVars, loaderVars, dailyVars>>
notAggVars == <<schedVars, pureVars, coerceVars, loaderVars, dailyVars>>
notLoaderVars == <<schedVars, pureVars, coerceVars, aggVars, dailyVars>>
notDailyVars == <<schedVars, pureVars, coerceVars, aggVars, loaderVars>>
\* the variables of the functions that are modelled call by call
funVars == <<pureVars, viewVars>>
vars == <<schedVars, funVars>>

\* ------------------------------------------------------------ store listing
\* the day folders among the objects fp of one project
FoldersOf(fp) == {d \in Days : \E k \in CsvKeys : fp[d][k] > 0}

DayExists(p, d) == d \in FoldersOf(files[p])

\* _s3_prefix_has_any_object(<p>/All/)
HasAll(p) == junk[p] \/ FoldersOf(files[p]) # {}

\* _discover_projects: the project folders that have something under All/, sorted
DiscoverProjects == SelectSeq(ProjOrder, LAMBDA p : HasAll(p))

\* ascending sequence of the members of a set of numbers
RECURSIVE SortedSeq(_)
SortedSeq(S) == IF S = {} THEN <<>> ELSE SortedSeq(S \ {SetMax(S)}) \o <<SetMax(S)>>

\* _discover_days: the day folders under <p>/All/, sorted
DiscoverDays(p) == SortedSeq(FoldersOf(files[p]))

\* (variant) the first day of the list is taken
LatestDay_first(ds) == IF ds = <<>> THEN 0 ELSE ds[1]

\* _latest_day; 0 stands for None
LatestDay(ds) == IF ds = <<>> THEN 0 ELSE ds[Len(ds)]

\* _day_signature of the objects fm of one day folder
DaySignature(fm, d) ==
    LET csv == {k \in CsvKeys : fm[k] > 0} IN
    IF csv = {} THEN [day |-> d, file_count |-> 0, max_key |-> 0, max_last_modified |-> 0]
    ELSE [day |-> d, file_count |-> Cardinality(csv), max_key |-> SetMax(csv),
          max_last_modified |-> SetMax({fm[k] : k \in csv})]

\* _get_agg_minutes_for_project
GetAggMinutes(s) ==
    IF ~s.present THEN AGG_MINUTES_FALLBACK
    ELSE IF s.value <= 0 THEN AGG_MINUTES_FALLBACK ELSE s.value

\* _read_state: missing, empty or non-JSON bytes give {}
ReadState(sj) == IF sj.kind \in {"absent", "garbage"} THEN NullRec ELSE sj.rec

\* same_input of _recompute_project
SameInput(st, sg) ==
    /\ st.last_day = sg.day
    /\ st.last_day_file_count = sg.file_count
    /\ st.last_day_max_last_modified = sg.max_last_modified
    /\ st.last_day_max_key = sg.max_key

\* same_params of _recompute_project
SameParams(st, agg) ==
    /\ st.target_column = TARGET_COLUMN
    /\ st.agg_minutes = agg
    /\ st.percentiles = PERCENTILES

\* (variant) one output with bytes is taken to be enough
OutputsOk_either(wd, we) == wd.kind = "csv" \/ we.kind = "csv"

\* wd_ok and we_ok: the object exists and has bytes
OutputsOk(wd, we) == wd.kind = "csv" /\ we.kind = "csv"

\* (variant) the decision also asks that the calendars in the store classify every day
\* of the two tables as the tables do
Skip_checksCalendars(st, sg, agg, wd, we) ==
    /\ SameInput(st, sg) /\ SameParams(st, agg) /\ OutputsOk(wd, we)
    /\ \A s \in wd.from \cup we.from :
         (s \in we.from) =
             (\/ /\ baseCal[YearOf(s.day)].kind = "ok"
                 /\ s.day \in baseCal[YearOf(s.day)].dates
              \/ \E r \in RegionIds :
                     /\ regionCal[projects[idx]][YearOf(s.day)][r].kind = "ok"
                     /\ s.day \in regionCal[projects[idx]][YearOf(s.day)][r].dates)

\* the decision of _recompute_project
Skip(st, sg, agg, wd, we) == SameInput(st, sg) /\ SameParams(st, agg) /\ OutputsOk(wd, we)

\* the decision as a function of what the store holds for one project with day folders:
\* its objects fp under All/, state.json, process_settings.json and the two outputs
Decision(fp, sj, se, wd, we) ==
    LET last == LatestDay(SortedSeq(FoldersOf(fp)))
    IN Skip(ReadState(sj), DaySignature(fp[last], last), GetAggMinutes(se), wd, we)

\* ------------------------------------------------------------------- Init
\* a day folder holding the one csv object 1, last modified at time 1
OneFile == [k \in CsvKeys |-> IF k = 1 THEN 1 ELSE 0]
\* the data a project starts with: the latest day only, or every day
InitFolders ==
    { [d \in Days |-> IF d = MaxDay THEN OneFile ELSE NoFiles],
      [d \in Days |-> OneFile] }
\* the project that other writers upload to and administer; the projects after it in
\* the listing hold closed data and are only read
Receiving == {ProjOrder[1]}
NoCache == [cached |-> FALSE, dates |-> {}]

SchedInit ==
    /\ files \in {f \in [Projects -> InitFolders] :
                     \A p \in Projects \ Receiving : f[p] = [d \in Days |-> OneFile]}
    /\ junk = [p \in Projects |-> FALSE]
    /\ settings = [p \in Projects |-> NoSettings]
    /\ baseCal = [y \in Years |-> IF y = YearOf(1) THEN OkCal({1}) ELSE NoCal]
    /\ regionCal = [p \in Projects |-> [y \in Years |-> [r \in RegionIds |-> NoCal]]]
    /\ weekdayCsv = [p \in Projects |-> NoOut]
    /\ weekendCsv = [p \in Projects |-> NoOut]
    /\ stateJson = [p \in Projects |-> NoState]
    /\ mainpc = "idle"
    /\ projects = <<>>
    /\ idx = 0
    /\ base_calendar_cache = [y \in Years |-> NoCache]
    /\ region_calendar_cache = [p \in Projects |-> [y \in Years |-> NoCache]]
    /\ status = [p \in Projects |-> "none"]
    /\ retcode = -1
    /\ pc = "none"
    /\ days = <<>>
    /\ sig = NoSig
    /\ agg_minutes = 0
    /\ di = 0
    /\ weekday_series = {}
    /\ weekend_series = {}
    /\ exc = "none"
    /\ run = 0
    /\ envCount = 0
    /\ faults = 0
    /\ lastEnvRun = 0
    /\ prevStatus = [p \in Projects |-> "none"]
    /\ wrote = {}
    /\ baseFetch = [y \in Years |-> 0]
    /\ regionFetch = [p \in Projects |-> [y \in Years |-> 0]]

\* no call of _read_day_dataframe is being followed
DayIdle ==
    /\ objs = <<>>
    /\ rd_pc = "none"
    /\ ki = 0
    /\ parts = <<>>
    /\ out = <<>>
    /\ day_ok = TRUE
    /\ bd_agg = 0
    /\ s_m = <<>>

\* no call of _compute_quantiles is being followed
QuantIdle ==
    /\ series_list = <<>>
    /\ q_agg = 0
    /\ q_pc = "none"
    /\ q_out = <<>>

\* no call of _parse_time_first_col is being followed
TimeIdle ==
    /\ col = [is_datetime |-> FALSE, cells |-> <<>>]
    /\ t_pc = "none"
    /\ t_route = "none"
    /\ ts = <<>>

\* a table: None, or columns, rows and whether the rows are indexed by time
Table(cols, indexed, rows) == [none |-> FALSE, columns |-> cols, indexed |-> indexed, rows |-> rows]
NoTable == [none |-> TRUE, columns |-> <<>>, indexed |-> FALSE, rows |-> <<>>]

\* no call of normalize is being followed
NormIdle ==
    /\ raw_df = NoTable
    /\ n_pc = "none"
    /\ n_out = NoTable

\* a column: its texts if its dtype is object, its numbers if its dtype is numeric
TextColumn(texts) == [numeric |-> FALSE, texts |-> texts, values |-> <<>>]
NumericColumn(values) == [numeric |-> TRUE, texts |-> <<>>, values |-> values]

\* no call of a numeric coercion is being followed
CoerceIdle ==
    /\ column = TextColumn(<<>>)
    /\ c_pc = "none"
    /\ c_out = TextColumn(<<>>)

\* a table for aggregation: None, or whether its column is numeric, whether its index
\* is a DatetimeIndex, and its rows
Frame(numeric, indexed, rows) ==
    [none |-> FALSE, numeric |-> numeric, indexed |-> indexed, rows |-> rows]
NoFrame == [none |-> TRUE, numeric |-> FALSE, indexed |-> FALSE, rows |-> <<>>]
\* the four tables of aggregate_by; resample fills the one of its agg
Tables(mean, p95, max, min) == [mean |-> mean, p95 |-> p95, max |-> max, min |-> min]
NoTables == Tables(<<>>, <<>>, <<>>, <<>>)
Returned(t) == [raised |-> "none", message |-> "none", tables |-> t]
Raised(e, msg) == [raised |-> e, message |-> msg, tables |-> NoTables]

\* no call of the aggregation functions is being followed
AggIdle ==
    /\ a_df = NoFrame
    /\ a_rule = "none"
    /\ a_agg = "none"
    /\ a_pc = "none"
    /\ a_out = Returned(NoTables)

\* the session state after init_hour_state and init_minute_state
NoCall == [fn |-> "none", arg |-> <<>>, ok |-> FALSE, before |-> <<>>]
SessionInit ==
    /\ loaded_hours = <<>>
    /\ hour_cache = {}
    /\ current_hour = <<>>
    /\ loaded_minutes = <<>>
    /\ minute_cache = {}
    /\ current_minute = <<>>
    /\ l_call = NoCall

\* no call of the loaders is being followed
LoaderIdle == loader = "none" /\ SessionInit

\* the daily view is not open
DailyIdle ==
    /\ hour_files = <<>>
    /\ cached_tables = <<>>
    /\ entry_df = {}
    /\ hours_present = {}
    /\ d_pc = "none"
    /\ d_call = [before |-> {}, asked |-> {}, files |-> <<>>]

ViewIdle == CoerceIdle /\ AggIdle /\ LoaderIdle /\ DailyIdle

FunIdle == DayIdle /\ QuantIdle /\ TimeIdle /\ NormIdle /\ ViewIdle

Init == SchedInit /\ FunIdle

\* ------------------------------------------------------------------- main
Cur == projects[idx]

\* the locals of _recompute_project before the call
ResetLocals ==
    /\ days' = <<>>
    /\ sig' = NoSig
    /\ agg_minutes' = 0
    /\ di' = 0
    /\ weekday_series' = {}
    /\ weekend_series' = {}
    /\ exc' = "none"
    /\ wrote' = {}

\* main, up to the first iteration of the loop over the projects
MainStart ==
    /\ mainpc \in {"idle", "done"}
    /\ run < MaxRuns
    /\ run' = run + 1
    /\ base_calendar_cache' = [y \in Years |-> NoCache]
    /\ region_calendar_cache' = [p \in Projects |-> [y \in Years |-> NoCache]]
    /\ projects' = DiscoverProjects
    /\ idx' = 1
    /\ prevStatus' = status
    /\ status' = [p \in Projects |-> "none"]
    /\ baseFetch' = [y \in Years |-> 0]
    /\ regionFetch' = [p \in Projects |-> [y \in Years |-> 0]]
    /\ IF DiscoverProjects = <<>>
         THEN mainpc' = "done" /\ retcode' = 0 /\ pc' = "none"
         ELSE mainpc' = "loop" /\ retcode' = -1 /\ pc' = "begin"
    /\ ResetLocals
    /\ UNCHANGED <<storeVars, envCount, faults, lastEnvRun>>
    /\ UNCHANGED funVars

\* (variant) an exception of one project ends the loop over the projects
MainNext_abortsOnError ==
    /\ mainpc = "loop"
    /\ pc = "ret"
    /\ IF idx = Len(projects) \/ status[Cur] = "error"
         THEN mainpc' = "done" /\ retcode' = 0 /\ pc' = "none" /\ idx' = idx
         ELSE mainpc' = "loop" /\ retcode' = retcode /\ pc' = "begin" /\ idx' = idx + 1
    /\ ResetLocals
    /\ UNCHANGED <<storeVars, projects, base_calendar_cache, region_calendar_cache, status,
                   run, envCount, faults, lastEnvRun, prevStatus, baseFetch, regionFetch>>
    /\ UNCHANGED funVars

\* main: the end of one iteration, the status line is printed
MainNext ==
    /\ mainpc = "loop"
    /\ pc = "ret"
    /\ IF idx = Len(projects)
         THEN mainpc' = "done" /\ retcode' = 0 /\ pc' = "none" /\ idx' = idx
         ELSE mainpc' = "loop" /\ retcode' = retcode /\ pc' = "begin" /\ idx' = idx + 1
    /\ ResetLocals
    /\ UNCHANGED <<storeVars, projects, base_calendar_cache, region_calendar_cache, status,
                   run, envCount, faults, lastEnvRun, prevStatus, baseFetch, regionFetch>>
    /\ UNCHANGED funVars

\* (variant) the except branch does not set the status
Return_noErrorStatus(s, e) ==
    /\ status' = [status EXCEPT ![Cur] = IF e = "none" THEN s ELSE @]
    /\ exc' = e
    /\ pc' = "ret"

\* return of _recompute_project with status s, or the except branch of main
Return(s, e) ==
    /\ status' = [status EXCEPT ![Cur] = s]
    /\ exc' = e
    /\ pc' = "ret"

\* ------------------------------------------------------ _recompute_project
\* the check of All/ and the discovery of the days
Begin ==
    /\ mainpc = "loop" /\ pc = "begin"
    /\ IF ~HasAll(Cur)
         THEN Return("skipped_no_all", "none") /\ days' = days
         ELSE /\ days' = DiscoverDays(Cur)
              /\ IF DiscoverDays(Cur) = <<>>
                   THEN Return("skipped_no_days", "none")
                   ELSE pc' = "compare" /\ UNCHANGED <<status, exc>>
    /\ UNCHANGED <<storeVars, mainpc, projects, idx, base_calendar_cache, region_calendar_cache,
                   retcode, sig, agg_minutes, di, weekday_series, weekend_series, bookVars>>
    /\ UNCHANGED funVars

\* the fingerprint of the latest day, the comparison with state.json and the decision
Compare ==
    /\ mainpc = "loop" /\ pc = "compare"
    /\ LET last == LatestDay(days)
           sg == DaySignature(files[Cur][last], last)
           agg == GetAggMinutes(settings[Cur])
       IN /\ sig' = sg
          /\ IF stateJson[Cur].kind = "nonobject"
               THEN Return("error", "state") /\ UNCHANGED <<agg_minutes, di>>
               ELSE /\ agg_minutes' = agg
                    /\ IF Skip(ReadState(stateJson[Cur]), sg, agg, weekdayCsv[Cur], weekendCsv[Cur])
                         THEN Return("skipped_no_changes", "none") /\ di' = di
                         ELSE pc' = "days" /\ di' = 1 /\ UNCHANGED <<status, exc>>
    /\ UNCHANGED <<storeVars, mainpc, projects, idx, base_calendar_cache, region_calendar_cache,
                   retcode, days, weekday_series, weekend_series, bookVars>>
    /\ UNCHANGED funVars

\* _parse_calendar_days of a loaded calendar; a missing object gives the empty set
CalDays(c) == IF c.kind = "ok" THEN c.dates ELSE {}

\* (variant) one region file that does not load discards the others
RegionDays_allOrNothing(p, y) ==
    IF \E r \in RegionIds : regionCal[p][y][r].kind = "bad" THEN {}
    ELSE UNION {CalDays(regionCal[p][y][r]) : r \in RegionIds}

\* the union of the region calendars of (p, y) that load
RegionDays(p, y) == UNION {CalDays(regionCal[p][y][r]) : r \in RegionIds}

\* (variant) the base calendar is loaded without being kept
BaseCacheAfter_notKept(y) ==
    IF base_calendar_cache[y].cached THEN base_calendar_cache
    ELSE [base_calendar_cache EXCEPT ![y] = [cached |-> FALSE, dates |-> CalDays(baseCal[y])]]

\* the base part of _holiday_set_for_project_year: the cache after the call
BaseCacheAfter(y) ==
    IF base_calendar_cache[y].cached THEN base_calendar_cache
    ELSE [base_calendar_cache EXCEPT ![y] = [cached |-> TRUE, dates |-> CalDays(baseCal[y])]]

\* the region part of _holiday_set_for_project_year: the cache after the call
RegionCacheAfter(p, y) ==
    IF region_calendar_cache[p][y].cached THEN region_calendar_cache
    ELSE [region_calendar_cache EXCEPT ![p][y] = [cached |-> TRUE, dates |-> RegionDays(p, y)]]

\* (variant) a base calendar that does not parse is passed over like a region file
BaseRaises_isolated(y) == FALSE

\* the base calendar of y has to be fetched and json.loads raises on it
BaseRaises(y) == ~base_calendar_cache[y].cached /\ baseCal[y].kind = "bad"

\* (variant) the region calendars are left out
HolidaySetOf_baseOnly(b, r) == b

\* the result of _holiday_set_for_project_year, from the two cache entries
HolidaySetOf(b, r) == b \cup r

\* (variant) the loop ends after its first iteration
NextDayPc_once(i, ds) == "write_weekday"

\* the loop over the days goes on until every discovered day is done
NextDayPc(i, ds) == IF i = Len(ds) THEN "write_weekday" ELSE "days"

\* _read_day_dataframe and _build_day_series: the profile of day d, from its csv objects
DaySeries(p, d) == [day |-> d, data |-> files[p][d]]

\* one iteration of the loop over the days
DayStep ==
    /\ mainpc = "loop" /\ pc = "days"
    /\ LET d == days[di]
           y == YearOf(d)
           p == Cur
       IN IF BaseRaises(y)
            THEN /\ Return("error", "calendar")
                 /\ baseFetch' = [baseFetch EXCEPT ![y] = @ + 1]
                 /\ UNCHANGED <<base_calendar_cache, region_calendar_cache, regionFetch,
                                di, weekday_series, weekend_series>>
            ELSE /\ base_calendar_cache' = BaseCacheAfter(y)
                 /\ region_calendar_cache' = RegionCacheAfter(p, y)
                 /\ baseFetch' = IF base_calendar_cache[y].cached THEN baseFetch
                                 ELSE [baseFetch EXCEPT ![y] = @ + 1]
                 /\ regionFetch' = IF region_calendar_cache[p][y].cached THEN regionFetch
                                   ELSE [regionFetch EXCEPT ![p][y] = @ + 1]
                 /\ LET holiday_set == HolidaySetOf(BaseCacheAfter(y)[y].dates,
                                                    RegionCacheAfter(p, y)[p][y].dates)
                    IN IF d \in holiday_set
                         THEN /\ weekend_series' = weekend_series \cup {DaySeries(p, d)}
                              /\ weekday_series' = weekday_series
                         ELSE /\ weekday_series' = weekday_series \cup {DaySeries(p, d)}
                              /\ weekend_series' = weekend_series
                 /\ di' = di + 1
                 /\ pc' = NextDayPc(di, days)
                 /\ UNCHANGED <<status, exc>>
    /\ UNCHANGED <<storeVars, mainpc, projects, idx, retcode, days, sig, agg_minutes,
                   run, envCount, faults, lastEnvRun, prevStatus, wrote>>
    /\ UNCHANGED funVars

\* _compute_quantiles and _write_quantile_csv: the table of a group of day profiles
QuantileCsv(series, agg) == [kind |-> "csv", agg |-> agg, from |-> series]

\* (variant) state.json is written together with the first output
WriteWeekday_stateEarly ==
    /\ mainpc = "loop" /\ pc = "write_weekday"
    /\ weekdayCsv' = [weekdayCsv EXCEPT ![Cur] = [kind |-> "csv", agg |-> agg_minutes, from |-> weekday_series]]
    /\ stateJson' = [stateJson EXCEPT ![Cur] =
           [kind |-> "object", rec |-> [NullRec EXCEPT !.computed_at = run, !.last_day = sig.day]]]
    /\ wrote' = wrote \cup {"weekday"}
    /\ pc' = "write_weekend"
    /\ UNCHANGED <<files, junk, settings, baseCal, regionCal, weekendCsv, mainVars,
                   days, sig, agg_minutes, di, weekday_series, weekend_series, exc,
                   run, envCount, faults, lastEnvRun, prevStatus, baseFetch, regionFetch>>
    /\ UNCHANGED funVars

\* the weekday table is computed and written
WriteWeekday ==
    /\ mainpc = "loop" /\ pc = "write_weekday"
    /\ weekdayCsv' = [weekdayCsv EXCEPT ![Cur] = QuantileCsv(weekday_series, agg_minutes)]
    /\ wrote' = wrote \cup {"weekday"}
    /\ pc' = "write_weekend"
    /\ UNCHANGED <<files, junk, settings, baseCal, regionCal, weekendCsv, stateJson, mainVars,
                   days, sig, agg_minutes, di, weekday_series, weekend_series, exc,
                   run, envCount, faults, lastEnvRun, prevStatus, baseFetch, regionFetch>>
    /\ UNCHANGED funVars

\* the weekend table is computed and written
WriteWeekend ==
    /\ mainpc = "loop" /\ pc = "write_weekend"
    /\ weekendCsv' = [weekendCsv EXCEPT ![Cur] = QuantileCsv(weekend_series, agg_minutes)]
    /\ wrote' = wrote \cup {"weekend"}
    /\ pc' = "write_state"
    /\ UNCHANGED <<files, junk, settings, baseCal, regionCal, weekdayCsv, stateJson, mainVars,
                   days, sig, agg_minutes, di, weekday_series, weekend_series, exc,
                   run, envCount, faults, lastEnvRun, prevStatus, baseFetch, regionFetch>>
    /\ UNCHANGED funVars

\* (variant) the number of days is stored where the number of csv files belongs
NewState_countsDays(sg, agg, ds, wd, we, now) ==
    [computed_at |-> now, last_day |-> sg.day, last_day_file_count |-> Len(ds),
     last_day_max_key |-> sg.max_key, last_day_max_last_modified |-> sg.max_last_modified,
     agg_minutes |-> agg, target_column |-> TARGET_COLUMN, percentiles |-> PERCENTILES,
     days_total |-> Len(ds), days_weekday |-> Cardinality(wd), days_weekend |-> Cardinality(we)]

\* new_state of _recompute_project; computed_at is the number of the invocation
NewState(sg, agg, ds, wd, we, now) ==
    [computed_at |-> now, last_day |-> sg.day, last_day_file_count |-> sg.file_count,
     last_day_max_key |-> sg.max_key, last_day_max_last_modified |-> sg.max_last_modified,
     agg_minutes |-> agg, target_column |-> TARGET_COLUMN, percentiles |-> PERCENTILES,
     days_total |-> Len(ds), days_weekday |-> Cardinality(wd), days_weekend |-> Cardinality(we)]

\* (variant) the fingerprint is taken again when state.json is written
WriteState_lateFingerprint ==
    /\ mainpc = "loop" /\ pc = "write_state"
    /\ LET last == LatestDay(DiscoverDays(Cur))
       IN stateJson' = [stateJson EXCEPT ![Cur] =
              [kind |-> "object",
               rec |-> NewState(DaySignature(files[Cur][last], last), agg_minutes, days,
                                weekday_series, weekend_series, run)]]
    /\ wrote' = wrote \cup {"state"}
    /\ Return("ok", "none")
    /\ UNCHANGED <<files, junk, settings, baseCal, regionCal, weekdayCsv, weekendCsv,
                   mainpc, projects, idx, base_calendar_cache, region_calendar_cache, retcode,
                   days, sig, agg_minutes, di, weekday_series, weekend_series,
                   run, envCount, faults, lastEnvRun, prevStatus, baseFetch, regionFetch>>
    /\ UNCHANGED funVars

\* state.json is written and the project returns ok
WriteState ==
    /\ mainpc = "loop" /\ pc = "write_state"
    /\ stateJson' = [stateJson EXCEPT ![Cur] =
           [kind |-> "object",
            rec |-> NewState(sig, agg_minutes, days, weekday_series, weekend_series, run)]]
    /\ wrote' = wrote \cup {"state"}
    /\ Return("ok", "none")
    /\ UNCHANGED <<files, junk, settings, baseCal, regionCal, weekdayCsv, weekendCsv,
                   mainpc, projects, idx, base_calendar_cache, region_calendar_cache, retcode,
                   days, sig, agg_minutes, di, weekday_series, weekend_series,
                   run, envCount, faults, lastEnvRun, prevStatus, baseFetch, regionFetch>>
    /\ UNCHANGED funVars

\* a store call of the current step fails: the exception reaches the except branch of main
IOError ==
    /\ mainpc = "loop"
    /\ pc \in {"begin", "compare", "days", "write_weekday", "write_weekend", "write_state"}
    /\ faults < MaxFaults
    /\ faults' = faults + 1
    /\ Return("error", "io")
    /\ UNCHANGED <<storeVars, mainpc, projects, idx, base_calendar_cache, region_calendar_cache,
                   retcode, days, sig, agg_minutes, di, weekday_series, weekend_series,
                   run, envCount, lastEnvRun, prevStatus, wrote, baseFetch, regionFetch>>
    /\ UNCHANGED funVars

\* ------------------------------------------------- the other writers of the store
\* the time stamp of an object written now; the objects of Init carry 1
Now == envCount + 2

\* every change of the store by another writer is counted and dated by the invocation
EnvBook ==
    /\ envCount < MaxEnv
    /\ envCount' = envCount + 1
    /\ lastEnvRun' = run
    /\ UNCHANGED <<mainVars, localVars, run, faults, prevStatus, wrote, baseFetch, regionFetch>>
    /\ UNCHANGED funVars

\* a csv object is uploaded to (or replaced in) a day folder
EnvPutFile(p, d, k) ==
    /\ EnvBook
    /\ files' = [files EXCEPT ![p][d][k] = Now]
    /\ UNCHANGED <<junk, settings, baseCal, regionCal, weekdayCsv, weekendCsv, stateJson>>

\* a csv object is deleted from a day folder
EnvRemoveFile(p, d, k) ==
    /\ EnvBook
    /\ files[p][d][k] > 0
    /\ files' = [files EXCEPT ![p][d][k] = 0]
    /\ UNCHANGED <<junk, settings, baseCal, regionCal, weekdayCsv, weekendCsv, stateJson>>

\* calendars, settings and the artifacts under Stat/ are edited by an operator, who
\* does so while the tool is not running; measurement data arrives at any time
Offline == mainpc # "loop"

\* an object outside the day folders is put under All/ or deleted
EnvSetJunk(p) ==
    /\ EnvBook
    /\ junk' = [junk EXCEPT ![p] = ~@]
    /\ UNCHANGED <<files, settings, baseCal, regionCal, weekdayCsv, weekendCsv, stateJson>>

\* process_settings.json is written or deleted
EnvSetSettings(p, s) ==
    /\ EnvBook
    /\ Offline
    /\ s # settings[p]
    /\ settings' = [settings EXCEPT ![p] = s]
    /\ UNCHANGED <<files, junk, baseCal, regionCal, weekdayCsv, weekendCsv, stateJson>>

\* a base calendar is written or deleted
EnvSetBaseCal(y, c) ==
    /\ EnvBook
    /\ Offline
    /\ c # baseCal[y]
    /\ baseCal' = [baseCal EXCEPT ![y] = c]
    /\ UNCHANGED <<files, junk, settings, regionCal, weekdayCsv, weekendCsv, stateJson>>

\* a region calendar is written or deleted
EnvSetRegionCal(p, y, r, c) ==
    /\ EnvBook
    /\ Offline
    /\ c # regionCal[p][y][r]
    /\ regionCal' = [regionCal EXCEPT ![p][y][r] = c]
    /\ UNCHANGED <<files, junk, settings, baseCal, weekdayCsv, weekendCsv, stateJson>>

\* an output file is deleted or truncated
EnvDamageOutput(p, which, o) ==
    /\ EnvBook
    /\ Offline
    /\ IF which = "weekday"
         THEN weekdayCsv[p] # o /\ weekdayCsv' = [weekdayCsv EXCEPT ![p] = o] /\ weekendCsv' = weekendCsv
         ELSE weekendCsv[p] # o /\ weekendCsv' = [weekendCsv EXCEPT ![p] = o] /\ weekdayCsv' = weekdayCsv
    /\ UNCHANGED <<files, junk, settings, baseCal, regionCal, stateJson>>

\* state.json is deleted or overwritten with bytes the tool did not write
EnvDamageState(p, s) ==
    /\ EnvBook
    /\ Offline
    /\ stateJson[p] # s
    /\ stateJson' = [stateJson EXCEPT ![p] = s]
    /\ UNCHANGED <<files, junk, settings, baseCal, regionCal, weekdayCsv, weekendCsv>>

Env ==
    \/ \E p \in Receiving, d \in Days, k \in CsvKeys : EnvPutFile(p, d, k)
    \/ \E p \in Receiving, d \in Days, k \in CsvKeys : EnvRemoveFile(p, d, k)
    \/ \E p \in Receiving : EnvSetJunk(p)
    \/ \E p \in Receiving, s \in SettingsChoices : EnvSetSettings(p, s)
    \/ \E y \in Years : \E c \in CalChoices(y) : EnvSetBaseCal(y, c)
    \/ \E p \in Receiving, y \in Years, r \in RegionIds : \E c \in CalChoices(y) : EnvSetRegionCal(p, y, r, c)
    \/ \E p \in Receiving, w \in {"weekday", "weekend"}, o \in {NoOut, EmptyOut} : EnvDamageOutput(p, w, o)
    \/ \E p \in Receiving, s \in {NoState, GarbageState, NonObjectState} : EnvDamageState(p, s)

Program ==
    \/ MainStart
    \/ MainNext
    \/ Begin
    \/ Compare
    \/ DayStep
    \/ WriteWeekday
    \/ WriteWeekend
    \/ WriteState
    \/ IOError

Next == Program \/ Env

Spec == Init /\ [][Next]_vars

\* ------------------------------------------------------------------ claims
\* the current project has returned and main has not yet gone on to the next one
AtReturn(p) == mainpc = "loop" /\ pc = "ret" /\ Cur = p

\* nothing in the store was changed by another writer since invocation r began
QuietSince(r) == lastEnvRun < r

\* the projects of the current invocation
Listed == {projects[i] : i \in 1..Len(projects)}

\* C1: when a project returned ok in the previous invocation and nothing in the store
\* was changed by another writer since that invocation began, its run in this
\* invocation returns skipped_no_changes (unless a store call fails), writes nothing,
\* and state.json is still the one the previous invocation wrote
C1_Idempotence ==
    \A p \in Projects :
        (AtReturn(p) /\ prevStatus[p] = "ok" /\ QuietSince(run - 1)) =>
            /\ exc # "io" => status[p] = "skipped_no_changes"
            /\ wrote = {}
            /\ stateJson[p].kind = "object"
            /\ stateJson[p].rec.computed_at = run - 1

C1_Witness ==
    \E p \in Projects :
        /\ AtReturn(p) /\ prevStatus[p] = "ok" /\ QuietSince(run - 1)
        /\ status[p] = "skipped_no_changes"

\* what the Decide step compares, read off the store: the fingerprint of the latest day
\* folder equals the persisted one, the parameters equal the persisted ones, and both
\* outputs exist with bytes
C2_Condition(p) ==
    LET folders == {d \in Days : \E k \in CsvKeys : files[p][d][k] > 0}
        last == CHOOSE d \in folders : \A e \in folders : e <= d
        csv == {k \in CsvKeys : files[p][last][k] > 0}
        st == stateJson[p].rec
        cur_agg == IF settings[p].present /\ settings[p].value > 0
                     THEN settings[p].value ELSE AGG_MINUTES_FALLBACK
    IN /\ stateJson[p].kind = "object"
       /\ st.last_day = last
       /\ st.last_day_file_count = Cardinality(csv)
       /\ \A k \in csv : k <= st.last_day_max_key /\ files[p][last][k] <= st.last_day_max_last_modified
       /\ st.last_day_max_key \in csv
       /\ \E k \in csv : files[p][last][k] = st.last_day_max_last_modified
       /\ st.target_column = TARGET_COLUMN
       /\ st.agg_minutes = cur_agg
       /\ st.percentiles = PERCENTILES
       /\ weekdayCsv[p].kind = "csv"
       /\ weekendCsv[p].kind = "csv"

\* C2: in an invocation during which no other writer changed the store, a project with
\* day folders returns skipped_no_changes exactly when the condition holds, and then it
\* has written nothing; when the condition fails the loop over the days is entered
C2_Decide ==
    (mainpc = "loop" /\ QuietSince(run) /\ days # <<>>) =>
        /\ (pc = "ret" /\ status[Cur] = "skipped_no_changes") => (C2_Condition(Cur) /\ wrote = {})
        /\ (pc = "days" /\ di = 1) => ~C2_Condition(Cur)
        /\ (pc = "ret" /\ exc = "none" /\ status[Cur] # "skipped_no_changes") => status[Cur] = "ok"

C2_Witness ==
    /\ mainpc = "loop" /\ QuietSince(run) /\ pc = "days" /\ di = 1
    /\ stateJson[Cur].kind = "object"
    /\ stateJson[Cur].rec.last_day = LatestDay(days)
    /\ stateJson[Cur].rec.last_day_file_count = sig.file_count
    /\ stateJson[Cur].rec.agg_minutes = agg_minutes
    /\ weekdayCsv[Cur].kind = "csv"
    /\ weekendCsv[Cur].kind # "csv"

\* C3 as stated: the status of a project is one of ok, skipped_no_changes,
\* skipped_no_days, error
C3_FourStatuses ==
    \A p \in Projects :
        status[p] \in {"none", "ok", "skipped_no_changes", "skipped_no_days", "error"}

\* C3 as amended: every project run ends with exactly one status, which is one of ok,
\* skipped_no_changes, skipped_no_days, skipped_no_all, error
C3_FiveStatuses ==
    /\ \A p \in Projects :
         status[p] \in {"none", "ok", "skipped_no_changes", "skipped_no_days",
                        "skipped_no_all", "error"}
    /\ \A p \in Projects : AtReturn(p) => status[p] # "none"
    /\ mainpc = "done" => \A p \in Listed : status[p] # "none"

C3_Witness == \E p \in Projects : AtReturn(p) /\ status[p] = "skipped_no_all"

\* a step of the tool that is not a failing store call
Step ==
    \/ MainNext
    \/ Begin
    \/ Compare
    \/ DayStep
    \/ WriteWeekday
    \/ WriteWeekend
    \/ WriteState

\* what a recompute of project p alone writes, from the store as it is
SoloWeekend(p) ==
    {[day |-> d, data |-> files[p][d]] :
        d \in {e \in Days : /\ \E k \in CsvKeys : files[p][e][k] > 0
                            /\ \/ baseCal[YearOf(e)].kind = "ok" /\ e \in baseCal[YearOf(e)].dates
                               \/ \E r \in RegionIds : /\ regionCal[p][YearOf(e)][r].kind = "ok"
                                                       /\ e \in regionCal[p][YearOf(e)][r].dates}}
SoloWeekday(p) ==
    {[day |-> d, data |-> files[p][d]] :
        d \in {e \in Days : \E k \in CsvKeys : files[p][e][k] > 0}} \ SoloWeekend(p)

\* C4: a project that raises gets the status error and the loop goes on: while main is
\* in the loop a step is possible, at the end every listed project has a status and main
\* returns 0; and in an invocation during which no other writer changed the store, a
\* project that returned ok has the outputs it would have had alone, whatever the
\* other projects did
C4_Isolation ==
    /\ mainpc = "loop" => ENABLED Step
    /\ \A p \in Projects : (AtReturn(p) /\ exc # "none") => status[p] = "error"
    /\ mainpc = "done" =>
         /\ retcode = 0
         /\ \A p \in Listed : status[p] # "none"
         /\ QuietSince(run) =>
              \A p \in Listed : status[p] = "ok" =>
                  /\ weekdayCsv[p].kind = "csv" /\ weekdayCsv[p].from = SoloWeekday(p)
                  /\ weekendCsv[p].kind = "csv" /\ weekendCsv[p].from = SoloWeekend(p)

C4_Witness ==
    /\ mainpc = "done" /\ QuietSince(run)
    /\ \E p, q \in Listed : status[p] = "error" /\ status[q] = "ok" /\ weekendCsv[q].from # {}

\* C5: a step of the tool changes state.json only as the last step of a run that returns
\* ok, when both outputs of that run are in the store; so a run that ends in any other
\* way, a failed write of an output included, leaves state.json as it was
C5_StateLast ==
    [][\A p \in Projects :
          (stateJson'[p] # stateJson[p] /\ envCount' = envCount) =>
              /\ mainpc = "loop" /\ Cur = p /\ pc = "write_state"
              /\ {"weekday", "weekend"} \subseteq wrote
              /\ weekdayCsv[p] = [kind |-> "csv", agg |-> agg_minutes, from |-> weekday_series]
              /\ weekendCsv[p] = [kind |-> "csv", agg |-> agg_minutes, from |-> weekend_series]
              /\ status'[p] = "ok" /\ pc' = "ret"]_vars

C5_Witness ==
    \E p \in Projects :
        /\ AtReturn(p) /\ status[p] = "error" /\ exc = "io" /\ wrote = {"weekday", "weekend"}
        /\ stateJson[p].kind = "object" /\ stateJson[p].rec.computed_at < run

\* the time stamps an object of the store can carry, 0 for no object
Stamps == 0..(MaxEnv + 1)

\* C6: when a run is about to decide, the decision depends on the latest day folder
\* only: replacing the csv objects of an earlier day folder by any others (the folder
\* staying a folder) leaves the decision as it is; and the decision is the one the run
\* takes when no other writer interferes
C6_LatestDayOnly ==
    \A p \in Projects :
        LET folders == {d \in Days : \E k \in CsvKeys : files[p][d][k] > 0}
            dec == Decision(files[p], stateJson[p], settings[p], weekdayCsv[p], weekendCsv[p])
        IN (mainpc = "loop" /\ Cur = p /\ folders # {}) =>
            /\ pc = "compare" =>
                 \A d \in {e \in folders : \E f \in folders : e < f} :
                     \A alt \in [CsvKeys -> Stamps] \ {NoFiles} :
                         Decision([files[p] EXCEPT ![d] = alt], stateJson[p], settings[p],
                                  weekdayCsv[p], weekendCsv[p]) = dec
            /\ (pc = "ret" /\ QuietSince(run) /\ status[p] = "skipped_no_changes") => dec
            /\ (pc = "days" /\ di = 1 /\ QuietSince(run)) => ~dec

\* a run skips although the outputs were derived from other contents of an earlier day
C6_Witness ==
    \E p \in Projects :
        /\ AtReturn(p) /\ QuietSince(run) /\ status[p] = "skipped_no_changes"
        /\ \E s \in weekdayCsv[p].from \cup weekendCsv[p].from :
             /\ s.day < LatestDay(days)
             /\ s.data # files[p][s.day]

\* the dates the run holds to be non-working for project p
CachedHolidays(p) ==
    UNION {base_calendar_cache[y].dates \cup region_calendar_cache[p][y].dates : y \in Years}

\* C7: when a run returns ok, state.json counts every discovered day once, days_weekday +
\* days_weekend = days_total, the two outputs hold one profile per discovered day, and
\* weekend.csv holds exactly the days found non-working
C7_EveryDay ==
    \A p \in Projects :
        (AtReturn(p) /\ status[p] = "ok") =>
            LET st == stateJson[p].rec
                wd == weekdayCsv[p].from
                we == weekendCsv[p].from
                discovered == {days[i] : i \in 1..Len(days)}
            IN /\ st.days_total = Cardinality(discovered)
               /\ st.days_weekday + st.days_weekend = st.days_total
               /\ st.days_weekday = Cardinality(wd)
               /\ st.days_weekend = Cardinality(we)
               /\ Cardinality(wd \cup we) = Cardinality(discovered)
               /\ {s.day : s \in wd} = discovered \ CachedHolidays(p)
               /\ {s.day : s \in we} = discovered \cap CachedHolidays(p)

\* three days, one of them a holiday
C7_Witness ==
    \E p \in Projects :
        /\ AtReturn(p) /\ status[p] = "ok"
        /\ Len(days) = 3
        /\ Cardinality(weekendCsv[p].from) = 1
        /\ Cardinality(weekdayCsv[p].from) = 2

\* is_nonworking(date) read off the calendars in the store
StoreNonWorking(p, d) ==
    \/ baseCal[YearOf(d)].kind = "ok" /\ d \in baseCal[YearOf(d)].dates
    \/ \E r \in RegionIds : regionCal[p][YearOf(d)][r].kind = "ok" /\ d \in regionCal[p][YearOf(d)][r].dates

\* C8: in a run that returns ok a day is in the weekend group if and only if its date is
\* in the base calendar of its year or in a region calendar of (project, year)
C8_Union ==
    \A p \in Projects :
        (AtReturn(p) /\ status[p] = "ok" /\ QuietSince(run)) =>
            \A i \in 1..Len(days) :
                /\ (days[i] \in {s.day : s \in weekendCsv[p].from}) <=> StoreNonWorking(p, days[i])
                /\ (days[i] \in {s.day : s \in weekdayCsv[p].from}) <=> ~StoreNonWorking(p, days[i])

\* a day that only a region calendar names is in the weekend group, another is a weekday
C8_Witness ==
    \E p \in Projects :
        /\ AtReturn(p) /\ status[p] = "ok" /\ QuietSince(run)
        /\ \E s \in weekendCsv[p].from :
             ~(baseCal[YearOf(s.day)].kind = "ok" /\ s.day \in baseCal[YearOf(s.day)].dates)
        /\ weekdayCsv[p].from # {}

\* C9: the region entry of the cache is the union of the region files that load, whatever
\* the other region files are, and a run is ended by a calendar only when a base
\* calendar of one of its days does not parse
C9_RegionIsolated ==
    /\ \A p \in Projects, y \in Years :
         (region_calendar_cache[p][y].cached /\ QuietSince(run)) =>
             region_calendar_cache[p][y].dates =
                 UNION {regionCal[p][y][r].dates : r \in {q \in RegionIds : regionCal[p][y][q].kind = "ok"}}
    /\ \A p \in Projects :
         (AtReturn(p) /\ exc = "calendar") =>
             \E i \in 1..Len(days) : baseCal[YearOf(days[i])].kind = "bad"
    /\ \A p \in Projects :
         (AtReturn(p) /\ status[p] = "error") => exc \in {"io", "state", "calendar"}

\* a run returns ok with a region file that does not load beside one that does
C9_Witness ==
    \E p \in Projects, y \in Years, r1, r2 \in RegionIds :
        /\ AtReturn(p) /\ status[p] = "ok" /\ QuietSince(run)
        /\ regionCal[p][y][r1].kind = "bad"
        /\ regionCal[p][y][r2].kind = "ok"
        /\ region_calendar_cache[p][y].cached
        /\ region_calendar_cache[p][y].dates = regionCal[p][y][r2].dates
        /\ \E s \in weekendCsv[p].from : s.day \in regionCal[p][y][r2].dates

\* entries of the caches stay as they are within one invocation, an entry that is there
\* is not fetched again, and a new invocation starts with empty caches
CachesKept ==
    /\ run' = run =>
         /\ \A y \in Years : base_calendar_cache[y].cached =>
              /\ base_calendar_cache'[y] = base_calendar_cache[y]
              /\ baseFetch'[y] = baseFetch[y]
         /\ \A p \in Projects, y \in Years : region_calendar_cache[p][y].cached =>
              /\ region_calendar_cache'[p][y] = region_calendar_cache[p][y]
              /\ regionFetch'[p][y] = regionFetch[p][y]
    /\ run' # run =>
         /\ \A y \in Years : ~base_calendar_cache'[y].cached
         /\ \A p \in Projects, y \in Years : ~region_calendar_cache'[p][y].cached

\* C10 as stated: within one invocation the base calendar of a year is fetched at most
\* once and the region calendars of a (project, year) at most once, cache entries stay
\* as they are, and the caches start empty
C10_FetchedOnce ==
    [][/\ \A y \in Years : baseFetch'[y] <= 1
       /\ \A p \in Projects, y \in Years : regionFetch'[p][y] <= 1
       /\ CachesKept]_vars

\* C10 as amended: the base calendar of a year is fetched again within one invocation
\* only when it is an object that does not parse, which is never cached; the rest as stated
C10_FetchedOnceIfLoaded ==
    [][/\ \A y \in Years :
            (run' = run /\ baseFetch'[y] > baseFetch[y] /\ baseFetch[y] >= 1) =>
                (baseCal[y].kind = "bad" /\ ~base_calendar_cache'[y].cached)
       /\ \A p \in Projects, y \in Years : regionFetch'[p][y] <= 1
       /\ CachesKept]_vars

\* both projects use the base calendar of a year, which was fetched once
C10_Witness ==
    /\ mainpc = "done"
    /\ \A p \in Projects : p \in Listed /\ status[p] = "ok"
    /\ \E y \in Years :
         /\ base_calendar_cache[y].cached /\ baseFetch[y] = 1
         /\ \A p \in Projects : region_calendar_cache[p][y].cached /\ regionFetch[p][y] = 1
         /\ \E p \in Projects : Cardinality({d \in FoldersOf(files[p]) : YearOf(d) = y}) > 1

\* C26: whatever state.json holds (no object, bytes that are not JSON, JSON that is not
\* an object or whose fields have the wrong type), a run does not end with error because
\* of it: an error of a project whose state.json is not a usable object comes from a
\* store call or from a calendar, never from reading the previous state
C26_DamagedStateRecomputes ==
    \A p \in Projects :
        (AtReturn(p) /\ status[p] = "error" /\ stateJson[p].kind # "object") =>
            exc \in {"io", "calendar"}

\* what one successful recompute leaves behind: both tables for the agg_minutes that
\* state.json records, as many day profiles in each table as state.json counts, and
\* every day in one table only, with one profile
OneRecompute(wd, we, st) ==
    /\ wd.agg = st.agg_minutes /\ we.agg = st.agg_minutes
    /\ Cardinality(wd.from) = st.days_weekday
    /\ Cardinality(we.from) = st.days_weekend
    /\ \A s, t \in wd.from \cup we.from : s.day = t.day => s = t
    /\ wd.from \cap we.from = {}

\* C27: a run that returns skipped_no_changes finds weekday.csv and weekend.csv that the
\* recompute that wrote the current state.json has written: the two tables and
\* state.json agree on agg_minutes, on the number of days in each table and on the
\* table each day belongs to
C27_SkipOnConsistent ==
    \A p \in Projects :
        (AtReturn(p) /\ status[p] = "skipped_no_changes") =>
            OneRecompute(weekdayCsv[p], weekendCsv[p], stateJson[p].rec)

\* the run of project p has returned ok and the store holds, in the day whose
\* fingerprint the run took, a csv object put there after the fingerprint was taken
AddedToLatest(p) ==
    /\ AtReturn(p) /\ status[p] = "ok"
    /\ \E k \in CsvKeys : files[p][sig.day][k] > sig.max_last_modified

\* the run of project p has returned ok and the store holds a day folder that the run
\* did not discover
NewDay(p) ==
    /\ AtReturn(p) /\ status[p] = "ok"
    /\ \E d \in FoldersOf(files[p]) : d \notin {days[i] : i \in 1..Len(days)}

\* as NewDay, for a day folder later than the day whose fingerprint the run took
NewerDay(p) ==
    /\ AtReturn(p) /\ status[p] = "ok"
    /\ \E d \in FoldersOf(files[p]) : d > sig.day

\* what the next run decides if the store stays as it is: TRUE is skipped_no_changes
NextDecision(p) ==
    Decision(files[p], stateJson[p], settings[p], weekdayCsv[p], weekendCsv[p])

\* C28 as stated: state.json holds the fingerprint taken before any day file was read,
\* and when a csv file was added to the latest day or a new day folder appeared after
\* that and before the run ended with ok, the next run does not skip
C28_ChangeSeen ==
    \A p \in Projects :
        /\ (AtReturn(p) /\ status[p] = "ok") => SameInput(stateJson[p].rec, sig)
        /\ (AddedToLatest(p) \/ NewDay(p)) => ~NextDecision(p)

\* C28 as amended: the same for a csv file added to the latest day and for a day folder
\* later than the latest day; a day folder earlier than the latest day that appears
\* during the run leaves the next run at skipped_no_changes
C28_ChangeSeenIfLatest ==
    \A p \in Projects :
        /\ (AtReturn(p) /\ status[p] = "ok") => SameInput(stateJson[p].rec, sig)
        /\ (AddedToLatest(p) \/ NewerDay(p)) => ~NextDecision(p)

\* a run has ended with ok after a csv file was added to the day it had fingerprinted
C28_Witness == \E p \in Projects : AddedToLatest(p) /\ lastEnvRun = run

\* the calendars in the store classify some day of the two tables of p otherwise than
\* the tables do: they were added, changed or removed after the tables were written
StaleTables(p) ==
    \E s \in weekdayCsv[p].from \cup weekendCsv[p].from :
        (s \in weekendCsv[p].from) # StoreNonWorking(p, s.day)

\* C29: the calendars are no part of the decision: when the fingerprint of the latest
\* day, the params and the two tables match state.json, the run returns
\* skipped_no_changes and leaves weekday.csv, weekend.csv and state.json as they are,
\* also when the calendars in the store no longer classify the days as the tables do
C29_CalendarsNoTrigger ==
    [][(/\ mainpc = "loop" /\ pc = "compare" /\ pc' # "compare" /\ exc' # "io"
        /\ QuietSince(run)
        /\ FoldersOf(files[Cur]) # {}
        /\ C2_Condition(Cur)
        /\ StaleTables(Cur))
       => (/\ pc' = "ret" /\ status'[Cur] = "skipped_no_changes"
           /\ UNCHANGED <<weekdayCsv, weekendCsv, stateJson>>
           /\ StaleTables(Cur)')]_vars

\* a recompute returned ok, a calendar was edited, and the next invocation has skipped
\* the project: its tables hold a classification that the store's calendars do not give
C29_Witness ==
    \E p \in Projects :
        /\ AtReturn(p) /\ status[p] = "skipped_no_changes" /\ prevStatus[p] = "ok"
        /\ stateJson[p].rec.computed_at = run - 1
        /\ lastEnvRun = run - 1
        /\ StaleTables(p)

\* the loop over the days takes the step for the day d of the current project
AtDay(d) ==
    /\ mainpc = "loop" /\ pc = "days" /\ days[di] = d
    /\ (pc' # "days" \/ di' # di) /\ exc' # "io"

\* the step for a day of a year whose base calendar does not parse: the project returns
\* error with nothing written, the file was fetched and nothing is cached for the year
BadBaseStep(d) ==
    (AtDay(d) /\ baseCal[YearOf(d)].kind = "bad") =>
        /\ pc' = "ret" /\ status'[Cur] = "error"
        /\ wrote' = {} /\ UNCHANGED <<weekdayCsv, weekendCsv, stateJson>>
        /\ baseFetch'[YearOf(d)] = baseFetch[YearOf(d)] + 1
        /\ ~base_calendar_cache'[YearOf(d)].cached

\* no project gets to its writes with a discovered day in a year whose base calendar
\* does not parse
NoWriteWithBadBase ==
    (mainpc = "loop" /\ (pc \in {"write_weekday", "write_weekend", "write_state"} \/ wrote # {})) =>
        \A i \in 1..Len(days) : baseCal[YearOf(days[i])].kind # "bad"

\* the day d has gone to the weekday group
IsWeekday(d) ==
    /\ \E s \in weekday_series' : s.day = d
    /\ \A s \in weekend_series' : s.day # d

\* C30 as stated: a base calendar that does not parse ends every project that
\* recomputes and has a day in that year with error and nothing written, and is fetched
\* again by each of them; a base calendar that is absent is cached as the empty set and
\* every day of that year goes to the weekday group
C30_BadBaseFatal ==
    [][/\ \A d \in Days : BadBaseStep(d)
       /\ NoWriteWithBadBase'
       /\ \A d \in Days : (AtDay(d) /\ baseCal[YearOf(d)].kind = "absent") =>
            /\ base_calendar_cache'[YearOf(d)] = [cached |-> TRUE, dates |-> {}]
            /\ IsWeekday(d)]_vars

\* C30 as amended: the same, and with an absent base calendar a day of that year goes to
\* the weekday group unless a region calendar of the project lists it
C30_BadBaseFatalRegionKept ==
    [][/\ \A d \in Days : BadBaseStep(d)
       /\ NoWriteWithBadBase'
       /\ \A d \in Days : (AtDay(d) /\ baseCal[YearOf(d)].kind = "absent") =>
            /\ base_calendar_cache'[YearOf(d)] = [cached |-> TRUE, dates |-> {}]
            /\ IsWeekday(d) = ~StoreNonWorking(Cur, d)]_vars

\* the base calendar of a year does not parse and both projects, each with a day in that
\* year, have ended with error after fetching it
C30_Witness ==
    \E y \in Years :
        /\ baseCal[y].kind = "bad"
        /\ mainpc = "loop" /\ pc = "ret" /\ idx = 2 /\ exc = "calendar"
        /\ \A p \in Projects : p \in Listed /\ status[p] = "error"
        /\ \A p \in Projects : weekdayCsv[p].kind # "csv" /\ stateJson[p].kind = "absent"
        /\ baseFetch[y] = 2
        /\ ~base_calendar_cache[y].cached

\* ============================================================================
\* _read_day_dataframe and _build_day_series, followed call by call for one day
\* folder. Times are minutes counted from the midnight of the folder's date.
\* ============================================================================
MaxFiles == 2        \* csv objects in the day folder

TIME_COLUMN == "timestamp"
DayMinutes == 24 * 60

\* one row of a raw file: the cell of the column that holds the times (tok: it parses
\* as a date) and the cell of the column that holds the numbers (vok: it is a number)
Row(t, tok, v, vok) == [t |-> t, tok |-> tok, v |-> v, vok |-> vok]
RowChoices ==
    { Row(10, TRUE, 1, TRUE), Row(10, TRUE, 2, TRUE), Row(730, TRUE, 1, TRUE),
      Row(730, TRUE, 0, FALSE), Row(0, FALSE, 1, TRUE), Row(0 - 30, TRUE, 2, TRUE) }

\* the rows of one raw file: none, one row, or two rows (the same time twice, times out
\* of order, a row without a time before one of the previous day)
RowSeqChoices ==
    {<<>>} \cup {<<r>> : r \in RowChoices}
    \cup { <<Row(10, TRUE, 1, TRUE), Row(10, TRUE, 2, TRUE)>>,
           <<Row(730, TRUE, 1, TRUE), Row(10, TRUE, 2, TRUE)>>,
           <<Row(0, FALSE, 1, TRUE), Row(0 - 30, TRUE, 2, TRUE)>> }

SeqsUpTo(S, n) == UNION {[1..m -> S] : m \in 0..n}

\* the header of a raw file
Layout(cols, at) == [columns |-> cols, time_at |-> at]
TimeFirst == Layout(<<TIME_COLUMN, TARGET_COLUMN>>, 1)
TimeSecond == Layout(<<TARGET_COLUMN, TIME_COLUMN>>, 2)
OtherHeader == Layout(<<"time", TARGET_COLUMN>>, 1)
NoTarget == Layout(<<TIME_COLUMN, "U">>, 1)

\* an object of the day folder: get_object raises ("error"), gives no bytes
\* ("no_bytes") or gives bytes that read_csv parses or not
RawFile(fetch, parses, layout, rows) ==
    [fetch |-> fetch, parses |-> parses, layout |-> layout, rows |-> rows]
FileChoices ==
    { RawFile("error", FALSE, TimeFirst, <<>>), RawFile("no_bytes", FALSE, TimeFirst, <<>>),
      RawFile("ok", FALSE, TimeFirst, <<>>) }
    \cup { RawFile("ok", TRUE, NoTarget, <<Row(10, TRUE, 1, TRUE)>>) }
    \cup { RawFile("ok", TRUE, TimeFirst, r) : r \in RowSeqChoices }
    \cup { RawFile("ok", TRUE, TimeSecond, r) :
               r \in { <<Row(10, TRUE, 2, TRUE)>>,
                       <<Row(730, TRUE, 1, TRUE), Row(10, TRUE, 2, TRUE)>> } }
    \cup { RawFile("ok", TRUE, OtherHeader, r) :
               r \in { <<Row(730, TRUE, 1, TRUE)>>,
                       <<Row(10, TRUE, 1, TRUE), Row(10, TRUE, 2, TRUE)>> } }

Range(q) == {q[i] : i \in 1..Len(q)}

\* (variant) the time is looked for in the first column, whatever its name
HasTimeColumn_first(f) == f.layout.time_at = 1

\* TIME_COLUMN in df.columns
HasTimeColumn(f) == TIME_COLUMN \in Range(f.layout.columns)

\* target_col in df.columns
HasTargetColumn(f) == TARGET_COLUMN \in Range(f.layout.columns)

\* sub of one file: the rows whose time parses, the number coerced
Sub(f) == SelectSeq(f.rows, LAMBDA r : r.tok)

\* the body of the loop for one key gives no table: an exception, or one of the continues
Skipped(f) ==
    \/ f.fetch # "ok"
    \/ ~f.parses
    \/ ~HasTimeColumn(f)
    \/ ~HasTargetColumn(f)
    \/ Sub(f) = <<>>

\* (variant) a file that cannot be used discards what was read before it
PartsAfter_dropsRead(ps, f) == IF Skipped(f) THEN <<>> ELSE Append(ps, Sub(f))

\* parts after the iteration for file f
PartsAfter(ps, f) == IF Skipped(f) THEN ps ELSE Append(ps, Sub(f))

\* pd.concat(parts, ignore_index=True)
RECURSIVE Concat(_)
Concat(ps) == IF ps = <<>> THEN <<>> ELSE Head(ps) \o Concat(Tail(ps))

Injections(n) == {f \in [1..n -> 1..n] : \A i, j \in 1..n : f[i] = f[j] => i = j}

\* sort_values(TIME_COLUMN) with the default kind="quicksort", which is not stable:
\* the rows come out ascending in time, rows of equal time in any order
SortValues(rows) ==
    { [i \in 1..Len(rows) |-> rows[f[i]]] : f \in
        {g \in Injections(Len(rows)) :
            \A i \in 1..(Len(rows) - 1) : rows[g[i]].t <= rows[g[i + 1]].t} }

\* drop_duplicates(subset=[TIME_COLUMN], keep="last")
DropDuplicatesLast(rows) ==
    SelectSeq([i \in 1..Len(rows) |-> [row |-> rows[i],
                   last |-> \A j \in (i + 1)..Len(rows) : rows[j].t # rows[i].t]],
              LAMBDA x : x.last)

Rows(xs) == [i \in 1..Len(xs) |-> xs[i].row]

\* the tables _read_day_dataframe can return for the parts ps
MergedTables(ps) == {Rows(DropDuplicatesLast(srt)) : srt \in SortValues(Concat(ps))}

\* the listing of the day folder fails: the exception leaves _read_day_dataframe
ListError ==
    /\ rd_pc = "start"
    /\ rd_pc' = "raised"
    /\ UNCHANGED <<objs, ki, parts, out, day_ok, bd_agg, s_m>>
    /\ UNCHANGED notDayVars

\* the keys of the day folder are listed and sorted
ListKeys ==
    /\ rd_pc = "start"
    /\ ki' = 1
    /\ rd_pc' = IF objs = <<>> THEN "merge" ELSE "loop"
    /\ UNCHANGED <<objs, parts, out, day_ok, bd_agg, s_m>>
    /\ UNCHANGED notDayVars

\* one iteration of the loop over the keys
ReadFile ==
    /\ rd_pc = "loop"
    /\ parts' = PartsAfter(parts, objs[ki])
    /\ ki' = ki + 1
    /\ rd_pc' = IF ki = Len(objs) THEN "merge" ELSE "loop"
    /\ UNCHANGED <<objs, out, day_ok, bd_agg, s_m>>
    /\ UNCHANGED notDayVars

\* after the loop: the empty table, or the parts concatenated, sorted and deduplicated
Merge ==
    /\ rd_pc = "merge"
    /\ out' \in MergedTables(parts)
    /\ rd_pc' = "merged"
    /\ UNCHANGED <<objs, ki, parts, day_ok, bd_agg, s_m>>
    /\ UNCHANGED notDayVars

\* ---------------------------------------------------------- _build_day_series
\* the bucket widths tried: the fallback, a quarter of an hour, half a day, a width
\* that does not divide the day and a width longer than the day
AggChoices == {AGG_MINUTES_FALLBACK, 15, 720, 1000, DayMinutes + 1}

\* pd.Timestamp("1970-01-01"), long before the folder's date
Epoch == 0 - 20000 * DayMinutes

\* Timestamp.floor("D")
FloorDay(t) == (t \div DayMinutes) * DayMinutes

SetMin(S) == CHOOSE x \in S : \A y \in S : x <= y

\* day_start: the folder's date, else the day of the first row, else 1970-01-01
DayStart(df, ok) ==
    IF ok THEN 0
    ELSE IF df # <<>> THEN FloorDay(SetMin({df[i].t : i \in 1..Len(df)}))
    ELSE Epoch

\* n = int(24 * 60 / agg_minutes)
Periods(agg) == DayMinutes \div agg

\* the label of the bin in which resample puts time t: the bins are counted from the
\* midnight of the first row (origin="start_day"), closed and labelled on the left
BinLabel(df, t, agg) ==
    LET origin == FloorDay(SetMin({df[i].t : i \in 1..Len(df)}))
    IN origin + ((t - origin) \div agg) * agg

RECURSIVE SumOf(_)
SumOf(q) == IF q = <<>> THEN 0 ELSE Head(q).v + SumOf(Tail(q))

\* the mean of one bin, kept as the number of values and their sum; the mean of no
\* value is NaN (cnt = 0)
BinMean(df, lbl, agg) ==
    LET inBin == SelectSeq(df, LAMBDA r : BinLabel(df, r.t, agg) = lbl /\ r.vok)
    IN [cnt |-> Len(inBin), sum |-> SumOf(inBin)]

NaNBin == [cnt |-> 0, sum |-> 0]

\* (variant) the resampled series is returned without being put on the grid of the day
DaySeriesOf_noReindex(df, ok, agg) ==
    IF df = <<>> THEN <<>>
    ELSE LET first == BinLabel(df, df[1].t, agg)
             last == BinLabel(df, df[Len(df)].t, agg)
         IN [k \in 1..((last - first) \div agg + 1) |->
                [label |-> (k - 1) * agg, bin |-> BinMean(df, first + (k - 1) * agg, agg)]]

\* the series _build_day_series returns: entry k carries the label 2000-01-01 00:00
\* plus (k - 1) * agg minutes and the mean of the bin that starts (k - 1) * agg minutes
\* after day_start
DaySeriesOf(df, ok, agg) ==
    [k \in 1..Periods(agg) |->
        [label |-> (k - 1) * agg,
         bin |-> IF df = <<>> THEN NaNBin
                 ELSE BinMean(df, DayStart(df, ok) + (k - 1) * agg, agg)]]

\* _build_day_series on the table that was read
BuildDaySeries(a, ok) ==
    /\ rd_pc = "merged"
    /\ day_ok' = ok
    /\ bd_agg' = a
    /\ s_m' = DaySeriesOf(out, ok, a)
    /\ rd_pc' = "built"
    /\ UNCHANGED <<objs, ki, parts, out>>
    /\ UNCHANGED notDayVars

DayInit ==
    /\ objs \in SeqsUpTo(FileChoices, MaxFiles)
    /\ rd_pc = "start"
    /\ ki = 0
    /\ parts = <<>>
    /\ out = <<>>
    /\ day_ok = TRUE
    /\ bd_agg = 0
    /\ s_m = <<>>

\* the scheduler at rest
SchedIdle == SchedInit /\ files = [p \in Projects |-> [d \in Days |-> OneFile]]
DayNext ==
    \/ ListError
    \/ ListKeys
    \/ ReadFile
    \/ Merge
    \/ \E a \in AggChoices, ok \in BOOLEAN : BuildDaySeries(a, ok)

DayProfileInit == SchedIdle /\ DayInit /\ QuantIdle /\ TimeIdle /\ NormIdle /\ ViewIdle
DayProfileSpec == DayProfileInit /\ [][DayNext]_vars

\* ------------------------------------------------ claims on the day profile
\* _read_day_dataframe has returned
Merged == rd_pc \in {"merged", "built"}

\* the times of the rows of a file that parse as dates
TimesIn(f) == {f.rows[i].t : i \in {j \in 1..Len(f.rows) : f.rows[j].tok}}

\* a file that can be fetched and parsed and has both named columns
Usable(f) ==
    /\ f.fetch = "ok" /\ f.parses
    /\ \E c \in 1..Len(f.layout.columns) : f.layout.columns[c] = "timestamp"
    /\ \E c \in 1..Len(f.layout.columns) : f.layout.columns[c] = "P_total"

OutTimes == {out[i].t : i \in 1..Len(out)}

\* the row for time t in the last usable file (in key order) that has one
LaterRow(t) ==
    LET j == SetMax({i \in 1..Len(objs) : Usable(objs[i]) /\ t \in TimesIn(objs[i])})
        rs == SelectSeq(objs[j].rows, LAMBDA r : r.tok /\ r.t = t)
    IN rs[Len(rs)]

\* C11: when two files of the day have rows with the same time, the table returned by
\* _read_day_dataframe has exactly one row for that time, and it is the row of the file
\* read later (the greater key).
C11_LaterFileWins ==
    Merged =>
        \A t \in OutTimes :
            /\ Cardinality({i \in 1..Len(out) : out[i].t = t}) = 1
            /\ \A i \in 1..Len(out) : out[i].t = t => out[i] = LaterRow(t)

\* C12: whatever the day folder holds and whatever the positive bucket width, the series
\* returned by _build_day_series has 24*60 \div agg_minutes entries, labelled from
\* 2000-01-01 00:00 in steps of agg_minutes; a bucket with no value of the day is NaN and
\* a day without rows gives that many NaN.
C12_FixedLength ==
    rd_pc = "built" =>
        /\ Len(s_m) = (24 * 60) \div bd_agg
        /\ \A k \in 1..Len(s_m) :
            /\ s_m[k].label = (k - 1) * bd_agg
            /\ (\A i \in 1..Len(out) :
                    ~(/\ out[i].vok
                      /\ out[i].t >= DayStart(out, day_ok) + (k - 1) * bd_agg
                      /\ out[i].t < DayStart(out, day_ok) + k * bd_agg))
                => s_m[k].bin.cnt = 0
            /\ out = <<>> => s_m[k].bin.cnt = 0

\* a day folder with objects but no row that can be used, and a grid with buckets
C12_Witness ==
    /\ rd_pc = "built" /\ objs # <<>> /\ out = <<>>
    /\ bd_agg = AGG_MINUTES_FALLBACK /\ Len(s_m) = 288

\* C13 (as stated): the time of a raw file is taken from its first column whatever the
\* header: a file whose first column holds the times under another name contributes its
\* rows.
C13_FirstColumn ==
    Merged =>
        \A i \in 1..Len(objs) :
            (/\ objs[i].fetch = "ok" /\ objs[i].parses
             /\ objs[i].layout.time_at = 1
             /\ \E c \in 1..Len(objs[i].layout.columns) : objs[i].layout.columns[c] = "P_total")
            => TimesIn(objs[i]) \subseteq OutTimes

\* C13 (amended): the time of a raw file is taken from the column named "timestamp",
\* wherever it stands; the returned table holds exactly the times of the files that can
\* be read and have that column and the target column.
C13_NamedColumn ==
    Merged => OutTimes = UNION {TimesIn(objs[i]) : i \in {j \in 1..Len(objs) : Usable(objs[j])}}

\* a file with the named column in second place is merged, one with the times in the
\* first column under another name is not
C13_Witness ==
    /\ Merged
    /\ \E i, j \in 1..Len(objs) :
        /\ objs[i].layout = TimeSecond /\ objs[i].fetch = "ok" /\ objs[i].parses
        /\ TimesIn(objs[i]) # {} /\ TimesIn(objs[i]) \subseteq OutTimes
        /\ objs[j].layout = OtherHeader /\ objs[j].fetch = "ok" /\ objs[j].parses
        /\ TimesIn(objs[j]) # {} /\ TimesIn(objs[j]) \cap OutTimes = {}

MaxGroup == 2        \* day profiles in the group

NaN == [nan |-> TRUE, x |-> 0]
Num(x) == [nan |-> FALSE, x |-> x]
ValueChoices == {NaN, Num(1), Num(2), Num(4)}

\* the profiles _build_day_series gives for bucket width agg
SeriesChoices(agg) ==
    { [k \in 1..Periods(agg) |-> [label |-> (k - 1) * agg, val |-> f[k]]] :
        f \in [1..Periods(agg) -> ValueChoices] }

\* s.reindex(x): the value s carries under the label of entry k of the grid, else NaN
Reindex(s, agg) ==
    [k \in 1..Periods(agg) |->
        IF \E j \in 1..Len(s) : s[j].label = (k - 1) * agg
          THEN s[CHOOSE j \in 1..Len(s) : s[j].label = (k - 1) * agg].val
          ELSE NaN]

\* (variant) a row is taken together with the row of the next bucket
RowValues_smoothed(group, agg, k) ==
    LET kk == IF k < Periods(agg) THEN k + 1 ELSE k
    IN [d \in 1..Len(group) |-> Reindex(group[d], agg)[k]]
       \o [d \in 1..Len(group) |-> Reindex(group[d], agg)[kk]]

\* row k of pd.concat([...], axis=1): the values of bucket k, one per day
RowValues(group, agg, k) == [d \in 1..Len(group) |-> Reindex(group[d], agg)[k]]

\* the numbers of a row in ascending order; NaN is left out
RECURSIVE Ascending(_)
Ascending(q) ==
    IF q = <<>> THEN <<>>
    ELSE LET rest == Ascending(Tail(q))
             h == Head(q)
         IN IF h.nan THEN rest
            ELSE SelectSeq(rest, LAMBDA v : v <= h.x) \o <<h.x>>
                 \o SelectSeq(rest, LAMBDA v : v > h.x)

\* (variant) the interpolation runs from the upper neighbour downwards
Quantile_fromUpper(row, p) ==
    LET v == Ascending(row)
        h == (Len(v) - 1) * p
        lo == h \div 1000 + 1
        hi == IF lo < Len(v) THEN lo + 1 ELSE lo
    IN IF v = <<>> THEN NaN
       ELSE Num(v[hi] * 1000 - (h % 1000) * (v[hi] - v[lo]))

\* the quantile of a row at p thousandths, by linear interpolation between the two
\* nearest order statistics, in thousandths; NaN for a row without numbers
Quantile(row, p) ==
    LET v == Ascending(row)
        h == (Len(v) - 1) * p
        lo == h \div 1000 + 1
        hi == IF lo < Len(v) THEN lo + 1 ELSE lo
    IN IF v = <<>> THEN NaN
       ELSE Num(v[lo] * 1000 + (h % 1000) * (v[hi] - v[lo]))

\* the table _compute_quantiles returns: one row per entry of the grid, one column
\* per percentile
QuantileTable(group, agg) ==
    [k \in 1..Periods(agg) |->
        [label |-> (k - 1) * agg,
         P |-> [c \in 1..Len(PERCENTILES) |->
                   IF group = <<>> THEN NaN
                   ELSE Quantile(RowValues(group, agg, k), PERCENTILES[c])]]]

ComputeQuantiles ==
    /\ q_pc = "call"
    /\ q_out' = QuantileTable(series_list, q_agg)
    /\ q_pc' = "done"
    /\ UNCHANGED <<series_list, q_agg>>
    /\ UNCHANGED notQuantVars

\* the bucket widths of the groups tried: half a day, a width that does not divide the
\* day and a width longer than the day
QuantInit ==
    /\ q_agg \in {720, 1000, DayMinutes + 1}
    /\ series_list \in SeqsUpTo(SeriesChoices(q_agg), MaxGroup)
    /\ q_pc = "call"
    /\ q_out = <<>>

QuantilesInit == SchedIdle /\ DayIdle /\ QuantInit /\ TimeIdle /\ NormIdle /\ ViewIdle
QuantilesNext == ComputeQuantiles
QuantilesSpec == QuantilesInit /\ [][QuantilesNext]_vars

\* --------------------------------------------------- claims on the quantiles
\* every profile of the group has a number in every bucket
Complete(group) ==
    \A d \in 1..Len(group) : \A k \in 1..Len(group[d]) : ~group[d][k].val.nan

\* the group with the value of day d at bucket j replaced by w
Replaced(group, d, j, w) == [group EXCEPT ![d][j].val = w]

\* C15: for a non-empty group of complete profiles every row of the table has
\* P0.5 <= P2.5 <= P5 <= P25 <= P75 <= P95 <= P97.5 <= P99.5, and row k is the same
\* whatever the profiles hold in the other buckets.
C15_Monotone ==
    (q_pc = "done" /\ series_list # <<>> /\ Complete(series_list)) =>
        \A k \in 1..Len(q_out) :
            /\ \A c \in 1..Len(PERCENTILES) : ~q_out[k].P[c].nan
            /\ \A c \in 1..(Len(PERCENTILES) - 1) : q_out[k].P[c].x <= q_out[k].P[c + 1].x
            /\ \A d \in 1..Len(series_list), j \in 1..Len(q_out), w \in ValueChoices \ {NaN} :
                  j # k => QuantileTable(Replaced(series_list, d, j, w), q_agg)[k] = q_out[k]

\* two complete days on a grid of two buckets, with different values in the first
C15_Witness ==
    /\ q_pc = "done" /\ Len(series_list) = 2 /\ Complete(series_list)
    /\ Len(q_out) = 2
    /\ q_out[1].P[1].x < q_out[1].P[Len(PERCENTILES)].x

\* C16: for a group of no days and any bucket width the scheduler can pass, the table
\* has 24*60 \div agg_minutes rows, every percentile NaN, and never zero rows.
C16_EmptyGroup ==
    (q_pc = "done" /\ series_list = <<>>) =>
        /\ Len(q_out) = (24 * 60) \div q_agg
        /\ \A k \in 1..Len(q_out) : \A c \in 1..Len(PERCENTILES) : q_out[k].P[c].nan
        /\ Len(q_out) > 0

\* ============================================================================
\* core/prepare.py, _parse_time_first_col, one call. An instant is a number of
\* seconds and a number of microseconds, or NaT.
\* ============================================================================
MaxCol == 5          \* rows of the column

NaT == [nat |-> TRUE, sec |-> 0, us |-> 0]
Inst(sec, us) == [nat |-> FALSE, sec |-> sec, us |-> us]

\* one cell of the column, as the text s.str.strip() leaves: whether it has the form
\* YYYY-MM-DD[ T]HH:MM:SS[,.]digits (strict), then the second its first 19 characters
\* name (base; NaT when they name no date, such as month 00), the digits after the
\* separator (frac; none when there is no separator), and what pd.to_datetime makes of
\* the cell on its own (generic) and read as seconds since the epoch (epoch)
Cell(strict, base, frac, generic, epoch) ==
    [strict |-> strict, base |-> base, frac |-> frac, generic |-> generic, epoch |-> epoch]
CellChoices ==
    { Cell(TRUE, Inst(0, 0), <<5>>, Inst(0, 500000), NaT),              \* 2025-01-01 00:00:00,5
      Cell(TRUE, Inst(0, 0), <<5, 0>>, Inst(0, 0), NaT),                \* 2025-01-01 00:00:00.50
      Cell(TRUE, Inst(1, 0), <<>>, Inst(1, 0), NaT),                    \* 2025-01-01T00:00:01
      Cell(TRUE, Inst(2, 0), <<1, 2, 3, 4, 5, 6, 7>>, NaT, NaT),        \* 2025-01-01 00:00:02,1234567
      Cell(TRUE, NaT, <<>>, NaT, NaT),                                  \* 0000-00-00 00:00:00
      Cell(FALSE, NaT, <<>>, Inst(3, 0), NaT),                          \* 01.01.2025 00:00:03
      Cell(FALSE, NaT, <<>>, NaT, Inst(4, 0)),                          \* 1735689604
      Cell(FALSE, NaT, <<>>, NaT, NaT) }                                \* n/a

\* x.mean() >= 0.8 for the booleans x; the mean of no row is NaN and the test fails
MeanAtLeast80(x) == Len(x) > 0 /\ 5 * Len(SelectSeq(x, LAMBDA b : b)) >= 4 * Len(x)

\* t.notna().sum() >= len(col) * 0.8
NotnaAtLeast80(t) == 5 * Len(SelectSeq(t, LAMBDA i : ~i.nat)) >= 4 * Len(t)

\* the value of a sequence of decimal digits
RECURSIVE DigitsValue(_)
DigitsValue(d) ==
    IF d = <<>> THEN 0 ELSE 10 * DigitsValue(SubSeq(d, 1, Len(d) - 1)) + d[Len(d)]

Zeros(n) == [i \in 1..n |-> 0]

\* (variant) the digits are padded on the left
Frac6_padLeft(f) ==
    LET g == IF f = <<>> THEN <<0>> ELSE f
        cut == SubSeq(g, 1, IF Len(g) < 6 THEN Len(g) ELSE 6)
    IN Zeros(6 - Len(cut)) \o cut

\* frac.fillna("0").str.slice(0, 6).str.ljust(6, "0")
Frac6(f) ==
    LET g == IF f = <<>> THEN <<0>> ELSE f
        cut == SubSeq(g, 1, IF Len(g) < 6 THEN Len(g) ELSE 6)
    IN cut \o Zeros(6 - Len(cut))

\* pd.to_datetime(base + "." + frac, format="%Y-%m-%d %H:%M:%S.%f", errors="coerce")
StrictParse(c) ==
    IF c.strict /\ ~c.base.nat THEN Inst(c.base.sec, DigitsValue(Frac6(c.frac))) ELSE NaT

StrictSeries(cells) == [i \in 1..Len(cells) |-> StrictParse(cells[i])]
GenericSeries(cells) == [i \in 1..Len(cells) |-> cells[i].generic]
EpochSeries(cells) == [i \in 1..Len(cells) |-> cells[i].epoch]

\* (variant) the strict parse is returned as soon as the pattern matches
StrictTaken_onMatch(cells) == MeanAtLeast80([i \in 1..Len(cells) |-> cells[i].strict])

\* the strict parse is the one returned
StrictTaken(cells) ==
    /\ MeanAtLeast80([i \in 1..Len(cells) |-> cells[i].strict])
    /\ NotnaAtLeast80(StrictSeries(cells))

\* the column is of a datetime dtype already and is returned as it is
ParseDatetimeColumn ==
    /\ t_pc = "call" /\ col.is_datetime
    /\ ts' = GenericSeries(col.cells)
    /\ t_route' = "as_is"
    /\ t_pc' = "done"
    /\ UNCHANGED col
    /\ UNCHANGED notTimeVars

\* step 1: the strict parse
ParseStrict ==
    /\ t_pc = "call" /\ ~col.is_datetime
    /\ StrictTaken(col.cells)
    /\ ts' = StrictSeries(col.cells)
    /\ t_route' = "strict"
    /\ t_pc' = "done"
    /\ UNCHANGED col
    /\ UNCHANGED notTimeVars

\* steps 2 and 3: the generic parse, then seconds since the epoch, whose call may raise
ParseFallback(raises) ==
    /\ t_pc = "call" /\ ~col.is_datetime
    /\ ~StrictTaken(col.cells)
    /\ IF ~NotnaAtLeast80(GenericSeries(col.cells)) /\ ~raises
          /\ NotnaAtLeast80(EpochSeries(col.cells))
         THEN ts' = EpochSeries(col.cells) /\ t_route' = "epoch"
         ELSE ts' = GenericSeries(col.cells) /\ t_route' = "generic"
    /\ t_pc' = "done"
    /\ UNCHANGED col
    /\ UNCHANGED notTimeVars

TimeInit ==
    /\ col \in [is_datetime : BOOLEAN, cells : SeqsUpTo(CellChoices, MaxCol)]
    /\ col.is_datetime => \A i \in 1..Len(col.cells) : col.cells[i] \in
           {Cell(FALSE, NaT, <<>>, Inst(3, 0), NaT), Cell(FALSE, NaT, <<>>, NaT, NaT)}
    /\ t_pc = "call"
    /\ t_route = "none"
    /\ ts = <<>>

ParseTimeInit == SchedIdle /\ DayIdle /\ QuantIdle /\ TimeInit /\ NormIdle /\ ViewIdle
ParseTimeNext ==
    \/ ParseDatetimeColumn
    \/ ParseStrict
    \/ \E raises \in BOOLEAN : ParseFallback(raises)
ParseTimeSpec == ParseTimeInit /\ [][ParseTimeNext]_vars

\* ------------------------------------------------ claims on the time parser
\* the microseconds that the digits d stand for as the decimal expansion of a fraction
\* of a second, digits after the sixth dropped
DecimalMicros(d) ==
    LET n == IF Len(d) < 6 THEN Len(d) ELSE 6
        RECURSIVE Upto(_)
        Upto(i) == IF i = 0 THEN 0 ELSE Upto(i - 1) + d[i] * 10 ^ (6 - i)
    IN Upto(n)

\* the digits without their trailing zeros
RECURSIVE Stripped(_)
Stripped(d) ==
    IF d # <<>> /\ d[Len(d)] = 0 THEN Stripped(SubSeq(d, 1, Len(d) - 1)) ELSE d

\* C17: in the strict format the digits after the comma or dot are the decimal
\* expansion of the fraction of a second: ",5" and ",50" are 500000 microseconds past
\* the second, and fractions that differ in trailing zeros only give the same instant.
C17_Fraction ==
    (t_pc = "done" /\ t_route = "strict") =>
        /\ \A i \in 1..Len(ts) :
              (col.cells[i].strict /\ ~col.cells[i].base.nat) =>
                  /\ ~ts[i].nat
                  /\ ts[i].sec = col.cells[i].base.sec
                  /\ ts[i].us = DecimalMicros(col.cells[i].frac)
                  /\ col.cells[i].frac \in {<<5>>, <<5, 0>>} => ts[i].us = 500000
        /\ \A i, j \in 1..Len(ts) :
              (/\ col.cells[i].strict /\ col.cells[j].strict
               /\ col.cells[i].base = col.cells[j].base
               /\ Stripped(col.cells[i].frac) = Stripped(col.cells[j].frac))
              => ts[i] = ts[j]

\* a column with ",5" and ",50" at the same second, parsed strictly to the same instant
C17_Witness ==
    /\ t_pc = "done" /\ t_route = "strict"
    /\ \E i, j \in 1..Len(ts) :
        /\ col.cells[i].strict /\ col.cells[i].frac = <<5>>
        /\ col.cells[j].strict /\ col.cells[j].frac = <<5, 0>>
        /\ ts[i] = Inst(0, 500000) /\ ts[j] = Inst(0, 500000)

\* at least 80% of the n rows of the column satisfy ok
Share80(n, ok(_)) == 5 * Cardinality({i \in 1..n : ok(i)}) >= 4 * n

Matches80 == Len(col.cells) > 0 /\ Share80(Len(col.cells), LAMBDA i : col.cells[i].strict)
StrictParses80 ==
    Share80(Len(col.cells), LAMBDA i : col.cells[i].strict /\ ~col.cells[i].base.nat)
GenericParses80 == Share80(Len(col.cells), LAMBDA i : ~col.cells[i].generic.nat)
EpochParses80 == Share80(Len(col.cells), LAMBDA i : ~col.cells[i].epoch.nat)

\* what is returned is the result of the parse that was selected
RouteResult ==
    /\ t_route = "strict" => \A i \in 1..Len(ts) :
          ts[i].nat = ~(col.cells[i].strict /\ ~col.cells[i].base.nat)
    /\ t_route = "generic" => ts = [i \in 1..Len(col.cells) |-> col.cells[i].generic]
    /\ t_route = "epoch" => ts = [i \in 1..Len(col.cells) |-> col.cells[i].epoch]

\* C18 (as stated): if at least 80% of the rows match the strict pattern the strict
\* parse is used; otherwise the generic parse, and the epoch parse only if the generic
\* one parses under 80% and the epoch one at least 80%.
C18_Selection ==
    (t_pc = "done" /\ ~col.is_datetime) =>
        /\ (t_route = "strict") = Matches80
        /\ t_route = "epoch" => ~GenericParses80 /\ EpochParses80
        /\ Len(ts) = Len(col.cells)
        /\ RouteResult

\* C18 (amended): the strict parse is used if at least 80% of the rows match the strict
\* pattern and the strict parse gives a valid instant for at least 80% of the rows;
\* otherwise the generic parse, and the epoch parse only if the generic one parses
\* under 80% and the epoch one at least 80%.
C18_SelectionIfParsed ==
    (t_pc = "done" /\ ~col.is_datetime) =>
        /\ (t_route = "strict") = (Matches80 /\ StrictParses80)
        /\ t_route = "epoch" => ~GenericParses80 /\ EpochParses80
        /\ Len(ts) = Len(col.cells)
        /\ RouteResult

\* four of five rows match the pattern, two of them name no date: the generic parse is
\* returned
C18_Witness ==
    /\ t_pc = "done" /\ ~col.is_datetime
    /\ Matches80 /\ ~StrictParses80
    /\ t_route = "generic"

\* ============================================================================
\* core/prepare.py, normalize, one call
\* ============================================================================
MaxNormRows == 3     \* rows of the raw table

\* a column name: its text, and whether blanks surround it
Header(name, padded) == [name |-> name, padded |-> padded]
\* str(c).strip()
Strip(h) == [h EXCEPT !.padded = FALSE]
\* c.lower()
Lower(name) ==
    CASE name \in {"uptime", "Uptime", "UPTIME"} -> "uptime"
      [] name = "Time" -> "time"
      [] name = "P_total" -> "p_total"
      [] OTHER -> name

ColumnChoices ==
    { <<>>,
      <<Header("timestamp", FALSE), Header("P_total", FALSE)>>,
      <<Header("Time", TRUE), Header("Uptime", FALSE), Header("P_total", TRUE)>>,
      <<Header("timestamp", FALSE), Header("UPTIME", TRUE)>> }

\* a row of the raw table: the cell of the first column, and the number the row holds
\* in its other columns
NormRowChoices ==
    [time : { Cell(TRUE, Inst(0, 0), <<5>>, Inst(0, 500000), NaT),
              Cell(TRUE, Inst(0, 0), <<5, 0>>, Inst(0, 0), NaT),
              Cell(TRUE, Inst(1, 0), <<>>, Inst(1, 0), NaT),
              Cell(FALSE, NaT, <<>>, NaT, NaT) },
     v : {1, 2}]

\* _parse_time_first_col of a column of text cells
ParsedSeries(cells, raises) ==
    IF StrictTaken(cells) THEN StrictSeries(cells)
    ELSE IF ~NotnaAtLeast80(GenericSeries(cells)) /\ ~raises /\ NotnaAtLeast80(EpochSeries(cells))
      THEN EpochSeries(cells)
      ELSE GenericSeries(cells)

\* df.empty: no row or no column
IsEmpty(t) == t.rows = <<>> \/ t.columns = <<>>

\* df.sort_index() with the default kind="quicksort": ascending in time, rows of equal
\* time in any order
SortIndex(rows) ==
    { [i \in 1..Len(rows) |-> rows[f[i]]] : f \in
        {g \in Injections(Len(rows)) :
            \A i \in 1..(Len(rows) - 1) :
                \/ rows[g[i]].idx.sec < rows[g[i + 1]].idx.sec
                \/ /\ rows[g[i]].idx.sec = rows[g[i + 1]].idx.sec
                   /\ rows[g[i]].idx.us <= rows[g[i + 1]].idx.us} }

\* the rows whose time parsed, indexed by it
Indexed(rows, t) ==
    LET all == [i \in 1..Len(rows) |-> [idx |-> t[i], v |-> rows[i].v]]
    IN SelectSeq(all, LAMBDA r : ~r.idx.nat)

\* the columns left after the first column and every "uptime" are dropped
KeptColumns(cols) == SelectSeq(Tail(cols), LAMBDA h : Lower(h.name) # "uptime")

\* df is None or df.empty: the argument is returned
NormalizeEmpty ==
    /\ n_pc = "call"
    /\ raw_df.none \/ IsEmpty(raw_df)
    /\ n_out' = raw_df
    /\ n_pc' = "done"
    /\ UNCHANGED raw_df
    /\ UNCHANGED notNormVars

\* no time of the first column parses: df.head(0) of the copy with stripped names
NormalizeNoTime(raises) ==
    /\ n_pc = "call"
    /\ ~raw_df.none /\ ~IsEmpty(raw_df)
    /\ LET t == ParsedSeries([i \in 1..Len(raw_df.rows) |-> raw_df.rows[i].time], raises)
       IN /\ \A i \in 1..Len(t) : t[i].nat
          /\ n_out' = Table([c \in 1..Len(raw_df.columns) |-> Strip(raw_df.columns[c])],
                            FALSE, <<>>)
    /\ n_pc' = "done"
    /\ UNCHANGED raw_df
    /\ UNCHANGED notNormVars

\* the rows with a time are indexed by it and sorted, the first column and "uptime"
\* are dropped
Normalize(raises) ==
    /\ n_pc = "call"
    /\ ~raw_df.none /\ ~IsEmpty(raw_df)
    /\ LET t == ParsedSeries([i \in 1..Len(raw_df.rows) |-> raw_df.rows[i].time], raises)
           cols == [c \in 1..Len(raw_df.columns) |-> Strip(raw_df.columns[c])]
       IN /\ \E i \in 1..Len(t) : ~t[i].nat
          /\ \E sorted \in SortIndex(Indexed(raw_df.rows, t)) :
                n_out' = Table(KeptColumns(cols), TRUE, sorted)
    /\ n_pc' = "done"
    /\ UNCHANGED raw_df
    /\ UNCHANGED notNormVars

NormInit ==
    /\ raw_df \in {NoTable} \cup
          {Table(c, FALSE, r) : c \in ColumnChoices, r \in SeqsUpTo(NormRowChoices, MaxNormRows)}
    /\ raw_df.columns = <<>> => raw_df.rows = <<>>
    /\ n_pc = "call"
    /\ n_out = NoTable

NormalizeInit == SchedIdle /\ DayIdle /\ QuantIdle /\ TimeIdle /\ NormInit /\ ViewIdle
NormalizeNext ==
    \/ NormalizeEmpty
    \/ \E raises \in BOOLEAN : NormalizeNoTime(raises)
    \/ \E raises \in BOOLEAN : Normalize(raises)
NormalizeSpec == NormalizeInit /\ [][NormalizeNext]_vars

\* -------------------------------------------------- claims on normalize
\* the instants of the rows of the returned table, in order
OutIndex == [i \in 1..Len(n_out.rows) |-> n_out.rows[i].idx]

Before(a, b) == a.sec < b.sec \/ (a.sec = b.sec /\ a.us < b.us)

\* C19: the table returned by normalize has no column named "uptime" in any letter
\* case, does not hold the time column as a data column and has no row whose time did
\* not parse, also when the input is empty or no time of the input parses.
C19_Normalized ==
    (n_pc = "done" /\ ~raw_df.none) =>
        /\ \A c \in 1..Len(n_out.columns) : Lower(n_out.columns[c].name) # "uptime"
        /\ \A c \in 1..Len(n_out.columns) :
              raw_df.columns # <<>> => n_out.columns[c].name # raw_df.columns[1].name
        /\ \A i \in 1..Len(n_out.rows) : ~n_out.rows[i].idx.nat

\* C20: the index of the table returned by normalize is ascending and unique: of the
\* rows of the raw table with the same time, the output has exactly one, the last seen.
C20_UniqueIndex ==
    (n_pc = "done" /\ n_out.indexed) =>
        /\ \A i \in 1..(Len(n_out.rows) - 1) : Before(OutIndex[i], OutIndex[i + 1])
        /\ \A i \in 1..Len(n_out.rows) :
              \E j \in 1..Len(raw_df.rows) :
                  /\ raw_df.rows[j].v = n_out.rows[i].v
                  /\ \A k \in (j + 1)..Len(raw_df.rows) :
                        \A raises \in BOOLEAN :
                            ParsedSeries([r \in 1..Len(raw_df.rows) |-> raw_df.rows[r].time],
                                         raises)[k] # OutIndex[i]

\* ============================================================================
\* core/prepare.py, _to_num, and streamlit_app.py, coerce_numeric, one column
\* ============================================================================
MaxCells == 2        \* cells of the column

\* a text cell is the sequence of its characters; NBSP is the character U+00A0
NBSP == "nbsp"
DigitChars == {"0", "1", "2", "3", "4", "5", "6", "7", "8", "9"}
DigitOf(c) ==
    CASE c = "0" -> 0 [] c = "1" -> 1 [] c = "2" -> 2 [] c = "3" -> 3 [] c = "4" -> 4
      [] c = "5" -> 5 [] c = "6" -> 6 [] c = "7" -> 7 [] c = "8" -> 8 [] c = "9" -> 9

\* .str.replace(c, "", regex=False) for every c of chars
Remove(t, chars) == SelectSeq(t, LAMBDA c : c \notin chars)
\* .str.replace(",", ".", regex=False)
CommaToPoint(t) == [i \in 1..Len(t) |-> IF t[i] = "," THEN "." ELSE t[i]]
\* .str.replace(r"[^0-9eE\+\-\.]", "", regex=True)
KeepNumberChars(t) == SelectSeq(t, LAMBDA c : c \in DigitChars \cup {"e", "E", "+", "-", "."})

IsDigits(t) == \A i \in 1..Len(t) : t[i] \in DigitChars
Digits(t) == [i \in 1..Len(t) |-> DigitOf(t[i])]
RECURSIVE Pow10(_)
Pow10(n) == IF n = 0 THEN 1 ELSE 10 * Pow10(n - 1)

\* pd.to_numeric(..., errors="coerce") of one text: the number it spells, in 1/100, or
\* NaN. A number is an optional sign, digits with at most one point among them, and an
\* optional exponent of an optional sign and digits. (The texts of the model hold at
\* most two decimals.)
ParseFloat(t) ==
    LET signed == t # <<>> /\ t[1] \in {"+", "-"}
        unsigned == IF signed THEN Tail(t) ELSE t
        es == {i \in 1..Len(unsigned) : unsigned[i] \in {"e", "E"}}
        cut == IF es = {} THEN Len(unsigned) + 1 ELSE SetMin(es)
        mant == SubSeq(unsigned, 1, cut - 1)
        expo == SubSeq(unsigned, cut + 1, Len(unsigned))
        esigned == expo # <<>> /\ expo[1] \in {"+", "-"}
        edigits == IF esigned THEN Tail(expo) ELSE expo
        ps == {i \in 1..Len(mant) : mant[i] = "."}
        dot == IF ps = {} THEN Len(mant) + 1 ELSE SetMin(ps)
        whole == SubSeq(mant, 1, dot - 1)
        frac == SubSeq(mant, dot + 1, Len(mant))
        wellFormed ==
            /\ IsDigits(whole) /\ IsDigits(frac) /\ Len(whole) + Len(frac) > 0
            /\ es # {} => (IsDigits(edigits) /\ edigits # <<>>)
        hundredths ==
            100 * DigitsValue(Digits(whole))
                + DigitsValue(SubSeq(Digits(frac) \o Zeros(2), 1, 2))
        e == DigitsValue(Digits(edigits))
        abs == IF esigned /\ expo[1] = "-" THEN hundredths \div Pow10(e)
               ELSE hundredths * Pow10(e)
    IN IF wellFormed THEN Num(IF signed /\ t[1] = "-" THEN 0 - abs ELSE abs) ELSE NaN

\* _to_num: a numeric column is returned as it is; in a column of texts the blanks are
\* removed, the comma becomes a point and the text is parsed
ToNum(s) ==
    IF s.numeric THEN s
    ELSE NumericColumn([i \in 1..Len(s.texts) |->
            ParseFloat(CommaToPoint(Remove(Remove(s.texts[i], {NBSP}), {" "})))])

\* coerce_numeric on one column: as _to_num, and every character that no number holds
\* is removed before the text is parsed
CoerceNumeric(s) ==
    IF s.numeric THEN s
    ELSE NumericColumn([i \in 1..Len(s.texts) |->
            ParseFloat(KeepNumberChars(
                CommaToPoint(Remove(Remove(s.texts[i], {NBSP}), {" "}))))])

\* "1 234,56 kW" with blanks and with non-breaking blanks, "1 234,56", "abc", "12",
\* "-3,5", "5 eV"
TextChoices ==
    { <<"1", " ", "2", "3", "4", ",", "5", "6", " ", "k", "W">>,
      <<"1", NBSP, "2", "3", "4", ",", "5", "6", NBSP, "k", "W">>,
      <<"1", " ", "2", "3", "4", ",", "5", "6">>,
      <<"a", "b", "c">>,
      <<"1", "2">>,
      <<"-", "3", ",", "5">>,
      <<"5", " ", "e", "V">> }

\* normalize, the loop over the remaining columns: df[c] = _to_num(df[c])
NormalizeColumn ==
    /\ c_pc = "call"
    /\ c_out' = ToNum(column)
    /\ c_pc' = "to_num"
    /\ UNCHANGED column
    /\ UNCHANGED notCoerceVars

\* streamlit_app.py: df = coerce_numeric(df, skip), for one column outside skip
CoerceColumn ==
    /\ c_pc = "call"
    /\ c_out' = CoerceNumeric(column)
    /\ c_pc' = "coerce_numeric"
    /\ UNCHANGED column
    /\ UNCHANGED notCoerceVars

CoerceInit ==
    /\ column \in {TextColumn(c) : c \in SeqsUpTo(TextChoices, MaxCells)}
                  \cup {NumericColumn(c) : c \in SeqsUpTo({NaN, Num(1200)}, MaxCells)}
    /\ c_pc = "call"
    /\ c_out = TextColumn(<<>>)

CoercionInit ==
    /\ SchedIdle /\ DayIdle /\ QuantIdle /\ TimeIdle /\ NormIdle
    /\ CoerceInit /\ AggIdle /\ LoaderIdle /\ DailyIdle
CoercionNext == NormalizeColumn \/ CoerceColumn
CoercionSpec == CoercionInit /\ [][CoercionNext]_vars

\* ------------------------------------------- claims on the numeric coercion
\* the cells of the column that spell "1 234,56 kW"
KiloWatts(t) == Remove(t, {NBSP, " "}) = <<"1", "2", "3", "4", ",", "5", "6", "k", "W">>

\* C21: after the numeric coercion of a column of texts the column is there with all its
\* rows and is numeric; a cell "1 234,56 kW" has become 1234.56, a cell "abc" has become
\* NaN, and the cells "12" and "-3,5" have become 12 and -3.5 whatever the other cells
\* of the column are.
C21_Coerced ==
    (c_pc # "call" /\ ~column.numeric) =>
        /\ c_out.numeric
        /\ Len(c_out.values) = Len(column.texts)
        /\ \A i \in 1..Len(column.texts) :
              /\ KiloWatts(column.texts[i]) => c_out.values[i] = Num(123456)
              /\ column.texts[i] = <<"a", "b", "c">> => c_out.values[i] = NaN
              /\ column.texts[i] = <<"1", "2">> => c_out.values[i] = Num(1200)
              /\ column.texts[i] = <<"-", "3", ",", "5">> => c_out.values[i] = Num(0 - 350)

\* ============================================================================
\* core/aggregate.py, aggregate_by, and core/downsample.py, resample, one call
\* ============================================================================
MaxSamples == 3      \* rows of the table

\* a row: its time in seconds after midnight, and its value
Sample(t, v) == [t |-> t, v |-> v]
SampleChoices ==
    { Sample(10, Num(1)), Sample(50, Num(3)), Sample(50, NaN),
      Sample(70, Num(3)), Sample(670, Num(1)), Sample(670, NaN) }
FrameChoices ==
    {NoFrame}
    \cup {Frame(TRUE, TRUE, r) : r \in SeqsUpTo(SampleChoices, MaxSamples)}
    \cup {Frame(n, i, r) : n \in BOOLEAN, i \in BOOLEAN, r \in SeqsUpTo(SampleChoices, 1)}

\* the rules of the daily view and of the averaging page, and texts that name no width
OfferedRules == {"20s", "1min", "2min", "5min", "15min"}
RuleChoices == OfferedRules \cup {"15MIN", "abc", "xmin"}
AggNames == {"mean", "max", "min", "p95"}
\* rule.lower()
LowerRule(r) == IF r = "15MIN" THEN "15min" ELSE r
\* rule.endswith("min")
EndsWithMin(r) == r \in {"1min", "2min", "5min", "15min", "xmin"}
\* the width in seconds that pandas reads from the rule; 0 where df.resample(rule)
\* raises ValueError("Invalid frequency: ...")
ToOffset(r) ==
    CASE r = "20s" -> 20 [] r = "1min" -> 60 [] r = "2min" -> 120
      [] r = "5min" -> 300 [] r = "15min" -> 900 [] OTHER -> 0

\* the start of the bucket of width w that holds t (buckets are counted from midnight)
BucketOf(t, w) == t - (t % w)

\* (variant) only the buckets that hold a row
Buckets_nonEmpty(rows, w) ==
    SortedSeq({BucketOf(rows[i].t, w) : i \in 1..Len(rows)})

\* the index of df.resample(rule): every bucket from the one of the first row to the
\* one of the last row
Buckets(rows, w) ==
    LET times == {rows[i].t : i \in 1..Len(rows)}
        first == BucketOf(SetMin(times), w)
        last == BucketOf(SetMax(times), w)
    IN [k \in 1..((last - first) \div w + 1) |-> first + (k - 1) * w]

\* the values of the rows of one bucket
ValuesIn(rows, lbl, w) ==
    LET inBucket == SelectSeq(rows, LAMBDA r : BucketOf(r.t, w) = lbl)
    IN [i \in 1..Len(inBucket) |-> inBucket[i].v]

RECURSIVE Total(_)
Total(q) == IF q = <<>> THEN 0 ELSE Head(q) + Total(Tail(q))

\* one aggregate of the values of a bucket, NaN left out: the mean as the count and
\* the sum (NaN: count 0), the 0.95 quantile in 1/1000, the largest, the smallest
Aggregate(agg, vals) ==
    LET a == Ascending(vals)
    IN CASE agg = "mean" -> [cnt |-> Len(a), sum |-> Total(a)]
         [] agg = "p95" -> Quantile(vals, 950)
         [] agg = "max" -> IF a = <<>> THEN NaN ELSE Num(a[Len(a)])
         [] agg = "min" -> IF a = <<>> THEN NaN ELSE Num(a[1])

\* df.resample(rule).<agg>(): one row per bucket of the index
Resampled(rows, w, agg) ==
    LET b == Buckets(rows, w)
    IN [k \in 1..Len(b) |-> [label |-> b[k], val |-> Aggregate(agg, ValuesIn(rows, b[k], w))]]

\* aggregate_by(df, rule)
AggregateBy(df, rule) ==
    IF df.none \/ df.rows = <<>> THEN Returned(NoTables)
    ELSE IF ~df.indexed THEN Raised("ValueError", "expects DatetimeIndex")
    ELSE IF ~df.numeric THEN Returned(NoTables)
    ELSE IF ToOffset(rule) = 0 THEN Raised("ValueError", "Invalid frequency")
    ELSE LET w == ToOffset(rule)
         IN Returned(Tables(Resampled(df.rows, w, "mean"), Resampled(df.rows, w, "p95"),
                            Resampled(df.rows, w, "max"), Resampled(df.rows, w, "min")))

\* resample(df, rule, agg) of core/downsample.py
Resample(df, rule, agg) ==
    LET r == LowerRule(rule)
        w == ToOffset(r)
        t == IF df.rows = <<>> THEN <<>> ELSE Resampled(df.rows, w, agg)
    IN IF ~EndsWithMin(r) THEN Raised("ValueError", "rule in minutes: 1min/5min/15min")
       ELSE IF agg \notin AggNames THEN Raised("ValueError", "agg must be mean|max|min|p95")
       ELSE IF w = 0 THEN Raised("ValueError", "Invalid frequency")
       ELSE Returned([NoTables EXCEPT ![agg] = t])

CallAggregateBy ==
    /\ a_pc = "call"
    /\ a_rule # "15MIN"
    /\ a_out' = AggregateBy(a_df, a_rule)
    /\ a_pc' = "aggregate_by"
    /\ UNCHANGED <<a_df, a_rule, a_agg>>
    /\ UNCHANGED notAggVars

\* the averaging page passes it the table of the session, which is time-indexed
CallResample(agg) ==
    /\ a_pc = "call"
    /\ ~a_df.none /\ a_df.indexed /\ a_df.numeric
    /\ a_agg' = agg
    /\ a_out' = Resample(a_df, a_rule, agg)
    /\ a_pc' = "resample"
    /\ UNCHANGED <<a_df, a_rule>>
    /\ UNCHANGED notAggVars

AggInit ==
    /\ a_df \in FrameChoices
    /\ a_rule \in RuleChoices
    /\ a_agg = "none"
    /\ a_pc = "call"
    /\ a_out = Returned(NoTables)

AggregationInit ==
    /\ SchedIdle /\ DayIdle /\ QuantIdle /\ TimeIdle /\ NormIdle
    /\ CoerceIdle /\ AggInit /\ LoaderIdle /\ DailyIdle
AggregationNext ==
    \/ CallAggregateBy
    \/ \E agg \in AggNames \cup {"median"} : CallResample(agg)
AggregationSpec == AggregationInit /\ [][AggregationNext]_vars

\* ----------------------------------------------- claims on the aggregation
\* the labels of one of the returned tables
Labels(t) == [k \in 1..Len(t) |-> t[k].label]
\* no row of the table passed in falls into the bucket that starts at lbl
NoSampleIn(lbl) ==
    \A i \in 1..Len(a_df.rows) :
        a_df.rows[i].t < lbl \/ a_df.rows[i].t >= lbl + ToOffset(a_rule)
\* aggregate_by has returned its tables for a table with rows and a numeric column
Aggregated ==
    /\ a_pc = "aggregate_by"
    /\ a_out.raised = "none"
    /\ ~a_df.none /\ a_df.numeric /\ a_df.rows # <<>>

\* C22: the four tables aggregate_by returns have the same index; it starts with the
\* bucket of the earliest row, ends with the bucket of the latest row and holds every
\* bucket of the rule between them; a bucket without a row is a row of NaN in all four.
C22_EveryBucket ==
    Aggregated =>
        LET t == a_out.tables
            w == ToOffset(a_rule)
            lo == SetMin({a_df.rows[i].t : i \in 1..Len(a_df.rows)})
            hi == SetMax({a_df.rows[i].t : i \in 1..Len(a_df.rows)})
        IN /\ Labels(t.p95) = Labels(t.mean)
           /\ Labels(t.max) = Labels(t.mean)
           /\ Labels(t.min) = Labels(t.mean)
           /\ t.mean # <<>>
           /\ t.mean[1].label <= lo /\ lo < t.mean[1].label + w
           /\ t.mean[Len(t.mean)].label <= hi /\ hi < t.mean[Len(t.mean)].label + w
           /\ \A k \in 1..(Len(t.mean) - 1) : t.mean[k + 1].label = t.mean[k].label + w
           /\ \A k \in 1..Len(t.mean) :
                 NoSampleIn(t.mean[k].label) =>
                     /\ t.mean[k].val.cnt = 0
                     /\ t.p95[k].val = NaN
                     /\ t.max[k].val = NaN
                     /\ t.min[k].val = NaN

\* a gap of ten 1-minute buckets between two rows with a value has come out as ten rows
\* of NaN between two rows with a mean
C22_Witness ==
    /\ Aggregated
    /\ a_rule = "1min"
    /\ Len(a_out.tables.mean) = 12
    /\ a_out.tables.mean[1].val.cnt > 0
    /\ a_out.tables.mean[12].val.cnt > 0
    /\ \A k \in 2..11 : NoSampleIn(a_out.tables.mean[k].label) /\ a_out.tables.max[k].val = NaN

\* the rule names no bucket of a fixed width
Unrecognized(r) == ToOffset(r) = 0
\* the message of the error lists the rules that are allowed
NamesAllowedRules(msg) == msg = "rule in minutes: 1min/5min/15min"

\* C23: a call of the aggregation with a rule that names no fixed bucket width ends with
\* a ValueError whose message names the allowed rules, and a call with one of the rules
\* 20s, 1min, 2min, 5min, 15min on a time-indexed table does not raise.
C23_RuleChecked ==
    (a_pc \in {"aggregate_by", "resample"} /\ ~a_df.none /\ a_df.indexed
        /\ a_agg \in AggNames \cup {"none"}) =>
        /\ Unrecognized(IF a_pc = "resample" THEN LowerRule(a_rule) ELSE a_rule) =>
              (a_out.raised = "ValueError" /\ NamesAllowedRules(a_out.message))
        /\ a_rule \in OfferedRules => a_out.raised = "none"

\* ============================================================================
\* core/hour_loader.py and core/minute_loader.py: the lists of what is shown
\* ============================================================================
MaxDate == 2         \* the dates 1..MaxDate

\* the hours and the minutes that can be asked for
HourSlots == {<<d, h>> : d \in 1..MaxDate, h \in {0, 23}}
MinuteSlots == {<<d, h, m>> : d \in 1..MaxDate, h \in {7}, m \in {0, 59}}
\* _key_for: "YYYY-MM-DDTHH" and "YYYY-MM-DDTHH:MM", as numbers
KeyFor(x) == IF Len(x) = 2 THEN 100 * x[1] + x[2] ELSE 10000 * x[1] + 100 * x[2] + x[3]

\* (variant) the entry is appended without being removed first
RemoveFirst_none(l, x) == l

\* lh.remove(pair): without the first entry equal to x
RemoveFirst(l, x) ==
    LET at == {i \in 1..Len(l) : l[i] = x}
    IN IF at = {} THEN l
       ELSE SubSeq(l, 1, SetMin(at) - 1) \o SubSeq(l, SetMin(at) + 1, Len(l))

\* the list after "if pair in lh: lh.remove(pair)" and "lh.append(pair)"
Appended(l, x) == (IF x \in Range(l) THEN RemoveFirst(l, x) ELSE l) \o <<x>>
\* what "while len(lh) > 2: lh.pop(0)" pops
Popped(l) == IF Len(l) > 2 THEN SubSeq(l, 1, Len(l) - 2) ELSE <<>>
\* and what it leaves
Trimmed(l) == IF Len(l) > 2 THEN SubSeq(l, Len(l) - 1, Len(l)) ELSE l

Call(fn, x, ok, before) == [fn |-> fn, arg |-> x, ok |-> ok, before |-> before]

\* load_hour from another view (the daily view loads the hours of a day through it):
\* the table is cached if the file was read and normalized
LoadHour(x, read) ==
    /\ loader = "hours"
    /\ hour_cache' = IF read THEN hour_cache \cup {KeyFor(x)} ELSE hour_cache
    /\ l_call' = Call("load_hour", x, read \/ KeyFor(x) \in hour_cache, loaded_hours)
    /\ UNCHANGED <<loader, loaded_hours, current_hour, loaded_minutes, minute_cache,
                   current_minute>>
    /\ UNCHANGED notLoaderVars

\* set_only_hour(d, h); load_hour gives a table if the key is cached or the file is
\* read and normalized without an exception
SetOnlyHour(x, read) ==
    /\ loader = "hours"
    /\ LET ok == KeyFor(x) \in hour_cache \/ read
       IN /\ l_call' = Call("set_only", x, ok, loaded_hours)
          /\ IF ok
               THEN /\ loaded_hours' = <<x>>
                    /\ hour_cache' = {KeyFor(x)}
                    /\ current_hour' = x
               ELSE UNCHANGED <<loaded_hours, hour_cache, current_hour>>
    /\ UNCHANGED <<loader, loaded_minutes, minute_cache, current_minute>>
    /\ UNCHANGED notLoaderVars

\* append_hour(d, h)
AppendHour(x, read) ==
    /\ loader = "hours"
    /\ LET ok == KeyFor(x) \in hour_cache \/ read
           lh == Appended(loaded_hours, x)
       IN /\ l_call' = Call("append", x, ok, loaded_hours)
          /\ IF ok
               THEN /\ loaded_hours' = Trimmed(lh)
                    /\ hour_cache' = (hour_cache \cup {KeyFor(x)})
                                         \ {KeyFor(o) : o \in Range(Popped(lh))}
                    /\ current_hour' = Trimmed(lh)[Len(Trimmed(lh))]
               ELSE UNCHANGED <<loaded_hours, hour_cache, current_hour>>
    /\ UNCHANGED <<loader, loaded_minutes, minute_cache, current_minute>>
    /\ UNCHANGED notLoaderVars

\* load_minute gives a table if the key is cached or one of the Ipeak and Upeak files
\* is read with at least one row
MinuteLoaded(x, ipeak, upeak) == KeyFor(x) \in minute_cache \/ ipeak \/ upeak

\* set_only_minute(d, h, m)
SetOnlyMinute(x, ipeak, upeak) ==
    /\ loader = "minutes"
    /\ l_call' = Call("set_only", x, MinuteLoaded(x, ipeak, upeak), loaded_minutes)
    /\ IF MinuteLoaded(x, ipeak, upeak)
         THEN /\ loaded_minutes' = <<x>>
              /\ minute_cache' = {KeyFor(x)}
              /\ current_minute' = x
         ELSE UNCHANGED <<loaded_minutes, minute_cache, current_minute>>
    /\ UNCHANGED <<loader, loaded_hours, hour_cache, current_hour>>
    /\ UNCHANGED notLoaderVars

\* append_minute(d, h, m)
AppendMinute(x, ipeak, upeak) ==
    /\ loader = "minutes"
    /\ l_call' = Call("append", x, MinuteLoaded(x, ipeak, upeak), loaded_minutes)
    /\ LET lm == Appended(loaded_minutes, x)
       IN IF MinuteLoaded(x, ipeak, upeak)
            THEN /\ loaded_minutes' = Trimmed(lm)
                 /\ minute_cache' = (minute_cache \cup {KeyFor(x)})
                                        \ {KeyFor(o) : o \in Range(Popped(lm))}
                 /\ current_minute' = Trimmed(lm)[Len(Trimmed(lm))]
            ELSE UNCHANGED <<loaded_minutes, minute_cache, current_minute>>
    /\ UNCHANGED <<loader, loaded_hours, hour_cache, current_hour>>
    /\ UNCHANGED notLoaderVars

LoaderInit ==
    /\ SchedIdle /\ DayIdle /\ QuantIdle /\ TimeIdle /\ NormIdle
    /\ CoerceIdle /\ AggIdle /\ DailyIdle
    /\ loader \in {"hours", "minutes"}
    /\ SessionInit
LoaderNext ==
    \/ \E x \in HourSlots, read \in BOOLEAN : LoadHour(x, read)
    \/ \E x \in HourSlots, read \in BOOLEAN : SetOnlyHour(x, read)
    \/ \E x \in HourSlots, read \in BOOLEAN : AppendHour(x, read)
    \/ \E x \in MinuteSlots, ipeak \in BOOLEAN, upeak \in BOOLEAN : SetOnlyMinute(x, ipeak, upeak)
    \/ \E x \in MinuteSlots, ipeak \in BOOLEAN, upeak \in BOOLEAN : AppendMinute(x, ipeak, upeak)
LoaderSpec == LoaderInit /\ [][LoaderNext]_vars

\* ---------------------------------------------------- claims on the loaders
\* the list, the cache and the current entry of the loader that is followed
Loaded == IF loader = "hours" THEN loaded_hours ELSE loaded_minutes
Cached == IF loader = "hours" THEN hour_cache ELSE minute_cache
Current == IF loader = "hours" THEN current_hour ELSE current_minute
Succeeded(fns) == l_call.fn \in fns /\ l_call.ok

\* C24: the list of loaded hours (of loaded minutes) always has at most two entries,
\* all different; a successful append of an entry that was not in a full list leaves
\* the second entry and the new one and drops the first entry from the cache; a
\* successful append of an entry that was in the list leaves the same entries with it
\* last; and after a successful set_only or append the current entry is the last one.
C24_AtMostTwo ==
    /\ Len(Loaded) <= 2
    /\ \A i, j \in 1..Len(Loaded) : Loaded[i] = Loaded[j] => i = j
    /\ (Succeeded({"append"}) /\ Len(l_call.before) = 2 /\ l_call.arg \notin Range(l_call.before))
          => /\ Loaded = <<l_call.before[2], l_call.arg>>
             /\ KeyFor(l_call.before[1]) \notin Cached
    /\ (Succeeded({"append"}) /\ l_call.arg \in Range(l_call.before))
          => /\ Range(Loaded) = Range(l_call.before)
             /\ Loaded[Len(Loaded)] = l_call.arg
    /\ Succeeded({"set_only", "append"}) => (Loaded # <<>> /\ Current = Loaded[Len(Loaded)])

\* a third hour was appended to two loaded hours
C24_Witness ==
    /\ loader = "hours"
    /\ Succeeded({"append"})
    /\ Len(l_call.before) = 2
    /\ l_call.arg \notin Range(l_call.before)
    /\ Len(loaded_hours) = 2

\* ============================================================================
\* views/daily.py: the table of a day and "refresh all"
\* ============================================================================
MaxHours == 3        \* the hours of the day of the model: range(24) cut to 0..MaxHours-1

HoursOfDay == 0..(MaxHours - 1)
\* what the file of an hour holds: no such object, a table without a row with a
\* time (a header, or rows whose time does not parse), or rows with data
FileStates == {"absent", "empty", "rows"}

\* what load_hour(day, h) returns: the cached table if the key is cached, else the
\* normalized file; "absent" stands for None
LoadHourResult(h) ==
    IF cached_tables[h] # "absent" THEN cached_tables[h] ELSE hour_files[h]

\* hour_cache after load_hour was called for the hours asked: a table that was read and
\* normalized is cached, also when it has no row
CacheAfter(asked) ==
    [h \in HoursOfDay |-> IF h \in asked THEN LoadHourResult(h) ELSE cached_tables[h]]

\* the hours asked for whose table is there and has rows
WithRows(asked) == {h \in asked : LoadHourResult(h) = "rows"}

\* render_daily_mode while entry["df"] is empty: the first assembly of the day
Assemble ==
    /\ d_pc \in {"open", "no data"}
    /\ cached_tables' = CacheAfter(HoursOfDay)
    /\ entry_df' = WithRows(HoursOfDay)
    /\ hours_present' = WithRows(HoursOfDay)
    /\ d_pc' = IF WithRows(HoursOfDay) = {} THEN "no data" ELSE "assembled"
    /\ UNCHANGED <<hour_files, d_call>>
    /\ UNCHANGED notDailyVars

\* the button "refresh all": _refresh_missing_hours
RefreshMissingHours ==
    /\ d_pc \in {"assembled", "refreshed"}
    /\ LET missing == HoursOfDay \ hours_present
       IN /\ cached_tables' = CacheAfter(missing)
          /\ entry_df' = entry_df \cup WithRows(missing)
          /\ hours_present' = hours_present \cup WithRows(missing)
          /\ d_call' = [before |-> hours_present, asked |-> missing, files |-> hour_files]
    /\ d_pc' = "refreshed"
    /\ UNCHANGED hour_files
    /\ UNCHANGED notDailyVars

\* another writer puts the file of an hour on the server, or replaces a file without
\* rows by one with rows
Upload(h, c) ==
    /\ d_pc # "none"
    /\ \/ hour_files[h] = "absent"
       \/ hour_files[h] = "empty" /\ c = "rows"
    /\ hour_files' = [hour_files EXCEPT ![h] = c]
    /\ UNCHANGED <<cached_tables, entry_df, hours_present, d_pc, d_call>>
    /\ UNCHANGED notDailyVars

DailyInit ==
    /\ SchedIdle /\ DayIdle /\ QuantIdle /\ TimeIdle /\ NormIdle
    /\ CoerceIdle /\ AggIdle /\ LoaderIdle
    /\ hour_files \in [HoursOfDay -> FileStates]
    /\ cached_tables = [h \in HoursOfDay |-> "absent"]
    /\ entry_df = {}
    /\ hours_present = {}
    /\ d_pc = "open"
    /\ d_call = [before |-> {}, asked |-> {}, files |-> hour_files]
DailyNext ==
    \/ Assemble
    \/ RefreshMissingHours
    \/ \E h \in HoursOfDay, c \in {"empty", "rows"} : Upload(h, c)
DailySpec == DailyInit /\ [][DailyNext]_vars

\* ------------------------------------------------ claims on the daily view
\* C25: after "refresh all", every hour that was not in hours_present and whose file on
\* the server held rows with data when the button was pressed is in hours_present and
\* its rows are in the table of the day; and no hour that was in hours_present was
\* asked for.
C25_LateData ==
    d_pc = "refreshed" =>
        /\ \A h \in HoursOfDay :
              (h \notin d_call.before /\ d_call.files[h] = "rows") =>
                  (h \in hours_present /\ h \in entry_df)
        /\ d_call.asked \cap d_call.before = {}

====
